---- MODULE Spec2Model ----
(***************************************************************************)
(* CELRIX concurrent data plane: connection handlers, the KV and Vector   *)
(* worker pools with their bounded queues, the sharded KV store with TTL  *)
(* and its sweeper, and the embedding index.                               *)
(*                                                                         *)
(* Time is counted in whole seconds.  Byte strings are named constants.    *)
(* A frame payload is kept as its parsed fields plus a "shape" saying      *)
(* which fields are on the wire, so that Command::from_frame can fail the  *)
(* way the code fails.                                                     *)
(***************************************************************************)
EXTENDS Integers, Sequences, FiniteSets, TLC

VARIABLES
    now,        \* Instant::now(), in seconds
    store,      \* ConcurrentStore.inner : key -> Entry
    index,      \* EmbeddingStore.embeddings : key -> EmbeddingEntry
    queue,      \* pool -> crossbeam bounded channel contents
    worker,     \* worker thread -> [pool, state, item]
    pc,         \* connection task -> position in ConcurrentHandler::run
    cur,        \* connection task -> frame being served
    chan,       \* connection task -> oneshot reply channel of the work item
    wire,       \* connection task -> frames read / written on the socket
    sweep,      \* ConcurrentTtlCleaner: 0 = waiting for tick, i = at shard i
    total_ops,  \* Metrics.total_ops
    lastWrite,  \* history: key -> the last SET / DEL a worker executed on it
    unswept,    \* history: the store as it would be had cleanup_expired never run
    call,       \* arguments and result of a function applied on its own
    dec,        \* a VcpCodec decoder with its input buffer and its byte stream
    pool,       \* WorkerPool: its own queue handle and the progress of join
    metrics,    \* Metrics: the atomic counters
    thr         \* thread -> position and locals inside one store or metrics operation

serverVars == <<now, store, index, queue, worker, pc, cur, chan, wire, sweep, total_ops,
                lastWrite, unswept, pool, metrics, thr>>

vars == <<now, store, index, queue, worker, pc, cur, chan, wire, sweep, total_ops, lastWrite,
          unswept, call, dec, pool, metrics, thr>>

----------------------------------------------------------------------------
(* Bounds of the model *)

MaxTime == 2            \* the clock stops here
MaxFrames == 2          \* frames one connection sends to the pipeline
MaxStoreFrames == 3
MaxK == 2                \* largest k handed to find_nearest
MaxStreamFrames == 2     \* frames in the stream one decoder is fed
MaxHeld == 2             \* buffers one task holds at a time
MaxRecorded == 8         \* commands the workers execute and record
MaxTerm == 2             \* Raft terms
MaxEntries == 5          \* operations recorded for replication
BufferSize == 400        \* ReplicationConfig::buffer_size of the model
MaxCalls == 4            \* calls of touch and remove
MaxLog == 1              \* entries of the Raft log
MaxItems == 2            \* work items of one producer
MaxCapacity == 2         \* capacity of a command queue
MaxRecords == 3          \* record_operation calls on one Metrics
MaxOps == 4              \* gets and sets in one history of a key
MaxParseFrames == 2      \* frames the client of the parser sends
MaxVecFrames == 3        \* frames the vector client sends     \* frames the store client sends
QueueCapacity == 1      \* WorkerPoolConfig.queue_capacity, scaled down
RuntimeThreads == 1     \* threads of the tokio runtime (number of cores)
InstantSecsMax == 7     \* largest second an Instant holds (i64, scaled down)
U64Max == 15            \* largest ttl the wire carries (u64, scaled down)
Dimension == 2          \* SemanticCacheConfig.dimension, scaled down

Keys == {"k1", "k2"}
Values == {"v1", "v2"}
Conns == {"c1", "c2", "c3", "c4"}
KvWorkers == {"kv1", "kv2"}
VecWorkers == {"vec1"}
Workers == KvWorkers \cup VecWorkers
Pools == {"KV", "Vector"}
NumShards == 2

None == -1              \* Option::None of an Option<u64> / Option<Instant>

max_results == 5
\* similarity_threshold = 0.85 as the fraction ThresholdNum / ThresholdDen
ThresholdNum == 85
ThresholdDen == 100
DefaultK == 10

----------------------------------------------------------------------------
(* Partial maps (HashMap / DashMap) *)

\* variant: an insert leaves the entry of a key already present
InsertIfAbsent(m, k, e) ==
    [x \in (DOMAIN m) \cup {k} |-> IF x \in DOMAIN m THEN m[x] ELSE e]

Insert(m, k, e) == [x \in (DOMAIN m) \cup {k} |-> IF x = k THEN e ELSE m[x]]
Remove(m, k) == [x \in (DOMAIN m) \ {k} |-> m[x]]
EmptyMap == [x \in {} |-> 0]

----------------------------------------------------------------------------
(* storage/concurrent_store.rs *)

\* Option<Bytes>
NoBytes == [some |-> FALSE, value |-> ""]
SomeBytes(v) == [some |-> TRUE, value |-> v]

\* Instant::now() + d panics when the sum is not representable
InstantAddOverflows(t, d) == t + d > InstantSecsMax

\* Entry::new
EntryNew(value, ttl, t) ==
    [value |-> value, expires_at |-> IF ttl = None THEN None ELSE t + ttl]

\* variant: an entry never counts as expired
is_expiredNever(entry, t) == FALSE

\* Entry::is_expired : Instant::now() > expires_at
is_expired(entry, t) ==
    IF entry.expires_at = None THEN FALSE ELSE t > entry.expires_at

\* ConcurrentStore::get ; None when the key is missing or expired
StoreGet(s, key, t) ==
    IF key \in DOMAIN s
    THEN IF is_expired(s[key], t) THEN NoBytes ELSE SomeBytes(s[key].value)
    ELSE NoBytes

\* ConcurrentStore::set (the Entry::new panic is decided by the caller)
StoreSet(s, key, value, ttl, t) == Insert(s, key, EntryNew(value, ttl, t))

\* ConcurrentStore::del : the map after the removal, and whether a key existed
\* variant: del reports the key and leaves it in the map
StoreDelKeep(s, key) == s

StoreDel(s, key) == Remove(s, key)
StoreDelExisted(s, key) == key \in DOMAIN s

\* ConcurrentStore::exists
StoreExists(s, key, t) ==
    IF key \in DOMAIN s THEN ~is_expired(s[key], t) ELSE FALSE

\* DashMap shard of a key
ShardOf(key) == IF key = "k1" THEN 1 ELSE 2

\* variant: an entry is dropped from the instant it expires at
RetainShardEager(s, shard, t) ==
    [x \in {k \in DOMAIN s : \/ ShardOf(k) # shard
                             \/ s[k].expires_at = None
                             \/ t < s[k].expires_at} |-> s[x]]

\* ConcurrentStore::cleanup_expired, the part that runs under one shard lock
RetainShard(s, shard, t) ==
    [x \in {k \in DOMAIN s : ShardOf(k) # shard \/ ~is_expired(s[k], t)} |-> s[x]]

----------------------------------------------------------------------------
(* protocol/frame.rs, protocol/command.rs, protocol/response.rs *)

CommandOpcodes == {"Ping", "Get", "Set", "Del", "Exists", "VAdd", "VSearch"}
ExtendedOpcodes == {"MGet", "MSet", "MDel", "Incr", "Decr", "IncrBy", "DecrBy", "Scan", "Keys"}
ResponseOpcodes == {"Pong", "Ok", "Error", "Value", "Nil", "Integer", "Array"}

\* Frame::new
FrameNew(opcode, request_id, payload) ==
    [opcode |-> opcode, request_id |-> request_id, payload |-> payload]

NoFrame == FrameNew("none", 0, [shape |-> "empty"])

ParseOk(cmd) == [tag |-> "Ok", cmd |-> cmd]
ParseErr(msg) == [tag |-> "Err", msg |-> msg]
ParsePanic == [tag |-> "Panic"]

\* Command::read_length_prefixed_buf on the first field of a payload
ReadKey(payload) ==
    IF payload.shape = "empty" THEN ParseErr(<<"Not enough data for length prefix">>)
    ELSE IF payload.shape = "truncated" THEN ParseErr(<<"Not enough data for payload">>)
    ELSE ParseOk(payload.key)

\* the u32 count and the f32 items that follow it
ReadVector(payload) ==
    IF payload.count > Len(payload.vector)
    THEN ParseErr(<<"Insufficient vector data">>)
    ELSE ParseOk(SubSeq(payload.vector, 1, payload.count))

\* variant: an opcode without a command aborts the parse
UnexpectedOpcodeAborts(op) == ParsePanic

\* Command::from_frame, the arm of every other opcode
UnexpectedOpcode(op) == ParseErr(<<"Unexpected opcode for command: ", op>>)

\* Command::from_frame
from_frame(frame) ==
    LET op == frame.opcode
        p == frame.payload
    IN  IF op = "Ping" THEN ParseOk([op |-> "Ping"])
        ELSE IF op \in {"Get", "Del", "Exists"} THEN
            IF ReadKey(p).tag = "Ok"
            THEN ParseOk([op |-> op, key |-> ReadKey(p).cmd])
            ELSE ReadKey(p)
        ELSE IF op = "Set" THEN
            IF ReadKey(p).tag # "Ok" THEN ReadKey(p)
            ELSE IF p.shape = "key" THEN ParseErr(<<"Not enough data for length prefix">>)
            ELSE ParseOk([op |-> "Set", key |-> p.key, value |-> p.value,
                          ttl |-> IF p.shape = "set" /\ p.ttl > 0 THEN p.ttl ELSE None])
        ELSE IF op = "VAdd" THEN
            IF ReadKey(p).tag # "Ok" THEN ReadKey(p)
            ELSE IF p.shape = "key" THEN ParsePanic      \* get_u32 on an exhausted buffer
            ELSE IF ReadVector(p).tag # "Ok" THEN ReadVector(p)
            ELSE ParseOk([op |-> "VAdd", key |-> p.key, vector |-> ReadVector(p).cmd])
        ELSE IF op = "VSearch" THEN
            IF p.shape = "empty" THEN ParsePanic         \* get_u32 on an exhausted buffer
            ELSE IF ReadVector(p).tag # "Ok" THEN ReadVector(p)
            ELSE ParseOk([op |-> "VSearch", vector |-> ReadVector(p).cmd,
                          k |-> IF p.shape = "vsearch" THEN p.k ELSE DefaultK])
        ELSE UnexpectedOpcode(op)

\* Response::to_frame
to_frame(response, request_id) ==
    IF response.tag = "Ok" THEN FrameNew("Ok", request_id, [shape |-> "empty"])
    ELSE IF response.tag = "Nil" THEN FrameNew("Nil", request_id, [shape |-> "empty"])
    ELSE IF response.tag = "Pong" THEN FrameNew("Pong", request_id, [shape |-> "empty"])
    ELSE IF response.tag = "Value"
        THEN FrameNew("Value", request_id, [shape |-> "bytes", data |-> response.data])
    ELSE IF response.tag = "Integer"
        THEN FrameNew("Integer", request_id, [shape |-> "i64", data |-> response.data])
    ELSE IF response.tag = "Error"
        THEN FrameNew("Error", request_id, [shape |-> "utf8", data |-> response.data])
    ELSE FrameNew("Array", request_id, [shape |-> "array", data |-> response.data])

----------------------------------------------------------------------------
(* vector/similarity.rs, vector/embedding_store.rs, vector/semantic.rs *)

RECURSIVE DotUpTo(_, _, _)
DotUpTo(a, b, n) == IF n = 0 THEN 0 ELSE DotUpTo(a, b, n - 1) + a[n] * b[n]

\* dot_product : the loop runs over a.len() and indexes b
dot_product(a, b) == DotUpTo(a, b, Len(a))

SumSq(a) == DotUpTo(a, a, Len(a))

\* cosine_similarity aborts: debug_assert_eq! in a debug build, the index
\* b[i] past the end of b in any build
CosinePanics(a, b, debug) == Len(a) # Len(b) /\ (debug \/ Len(a) > Len(b))

\* cosine_similarity as the pair (dot, |a|^2 * |b|^2) ; the value is
\* dot / sqrt(den) when den > 0 and 0 otherwise
cosine_similarity(a, b) == [dot |-> dot_product(a, b), den |-> SumSq(a) * SumSq(b)]

\* sim >= threshold
SimAtLeast(sim, num, den) ==
    IF sim.den > 0
    THEN sim.dot >= 0 /\ sim.dot * sim.dot * den * den >= num * num * sim.den
    ELSE FALSE

\* x > y for two similarities that passed a positive threshold
SimGreater(x, y) == x.dot * x.dot * y.den > y.dot * y.dot * x.den

\* all enumerations of a finite set: the iteration orders of a DashMap
Orderings(S) ==
    {o \in [1..Cardinality(S) -> S] : \A i, j \in 1..Cardinality(S) : o[i] = o[j] => i = j}

\* stable insertion of e into a sequence sorted by descending similarity
RECURSIVE InsertDesc(_, _)
InsertDesc(sorted, e) ==
    IF sorted = <<>> THEN <<e>>
    ELSE IF SimGreater(e.sim, Head(sorted).sim) THEN <<e>> \o sorted
    ELSE <<Head(sorted)>> \o InsertDesc(Tail(sorted), e)

RECURSIVE SortDesc(_)
SortDesc(seq) ==
    IF seq = <<>> THEN <<>>
    ELSE InsertDesc(SortDesc(SubSeq(seq, 1, Len(seq) - 1)), seq[Len(seq)])

\* variant: the last k results are kept
TruncateTail(seq, k) == IF Len(seq) > k THEN SubSeq(seq, Len(seq) - k + 1, Len(seq)) ELSE seq

\* Vec::truncate
Truncate(seq, k) == IF Len(seq) > k THEN SubSeq(seq, 1, k) ELSE seq

RECURSIVE Scan(_, _, _)
Scan(idx, order, query) ==
    IF order = <<>> THEN <<>>
    ELSE LET key == Head(order)
             sim == cosine_similarity(query, idx[key].embedding)
         IN  (IF SimAtLeast(sim, ThresholdNum, ThresholdDen)
              THEN <<[key |-> key, sim |-> sim]>> ELSE <<>>)
             \o Scan(idx, Tail(order), query)

\* EmbeddingStore::find_nearest with the map iterated in the given order
find_nearest(idx, order, query, k) == Truncate(SortDesc(Scan(idx, order, query)), k)

\* some stored vector makes cosine_similarity abort
ScanPanics(idx, query, debug) ==
    \E key \in DOMAIN idx : CosinePanics(query, idx[key].embedding, debug)

\* SemanticCache::semantic_get : the keys of the results, in order
semantic_get(idx, order, query) ==
    LET nearest == find_nearest(idx, order, query, max_results)
    IN  [i \in 1..Len(nearest) |-> nearest[i].key]

\* EmbeddingEntry::new(..).with_value(value), touched by EmbeddingStore::set
EmbeddingEntryNew(embedding, value, t) ==
    [embedding |-> embedding, value |-> value, metadata |-> None,
     created_at |-> t, last_accessed |-> t]

\* variant: the entry is inserted before its dimension is looked at
EmbeddingStoreSetLate(idx, key, entry) ==
    [ok |-> Len(entry.embedding) = Dimension,
     err |-> <<"Dimension mismatch: expected ", Dimension, ", got ", Len(entry.embedding)>>,
     index |-> Insert(idx, key, entry)]

\* EmbeddingStore::set : Err and no insert when the dimension disagrees
EmbeddingStoreSet(idx, key, entry) ==
    IF Len(entry.embedding) # Dimension
    THEN [ok |-> FALSE,
          err |-> <<"Dimension mismatch: expected ", Dimension, ", got ", Len(entry.embedding)>>,
          index |-> idx]
    ELSE [ok |-> TRUE, err |-> <<>>, index |-> Insert(idx, key, entry)]

----------------------------------------------------------------------------
(* server/command_queue.rs, server/worker_pool.rs *)

WorkResultOk == [tag |-> "Ok"]
WorkResultNil == [tag |-> "Nil"]
WorkResultPong == [tag |-> "Pong"]
WorkResultValue(v) == [tag |-> "Value", data |-> v]
WorkResultInteger(i) == [tag |-> "Integer", data |-> i]
WorkResultError(e) == [tag |-> "Error", data |-> e]
WorkResultArray(items) == [tag |-> "Array", data |-> items]

Returned(result, s, idx) == [panic |-> FALSE, result |-> result, store |-> s, index |-> idx]
Panicked(s, idx) == [panic |-> TRUE, result |-> WorkResultNil, store |-> s, index |-> idx]

\* WorkerPool::execute_command at time t, with the index iterated in the
\* given order and the build profile debug / release
execute_command(s, idx, cmd, t, order, debug) ==
    IF cmd.op = "Ping" THEN Returned(WorkResultPong, s, idx)
    ELSE IF cmd.op = "Get" THEN
        IF StoreGet(s, cmd.key, t).some
        THEN Returned(WorkResultValue(StoreGet(s, cmd.key, t).value), s, idx)
        ELSE Returned(WorkResultNil, s, idx)
    ELSE IF cmd.op = "Set" THEN
        IF cmd.ttl # None /\ InstantAddOverflows(t, cmd.ttl)
        THEN Panicked(s, idx)
        ELSE Returned(WorkResultOk, StoreSet(s, cmd.key, cmd.value, cmd.ttl, t), idx)
    ELSE IF cmd.op = "Del" THEN
        Returned(WorkResultInteger(IF StoreDelExisted(s, cmd.key) THEN 1 ELSE 0),
                 StoreDel(s, cmd.key), idx)
    ELSE IF cmd.op = "Exists" THEN
        Returned(WorkResultInteger(IF StoreExists(s, cmd.key, t) THEN 1 ELSE 0), s, idx)
    ELSE IF cmd.op = "VAdd" THEN
        LET set == EmbeddingStoreSet(idx, cmd.key, EmbeddingEntryNew(cmd.vector, cmd.key, t))
        IN  IF set.ok
            THEN Returned(WorkResultOk, s, set.index)
            ELSE Returned(WorkResultError(set.err), s, set.index)
    ELSE \* VSearch ; k is not used
        IF ScanPanics(idx, cmd.vector, debug)
        THEN Panicked(s, idx)
        ELSE Returned(WorkResultArray(semantic_get(idx, order, cmd.vector)), s, idx)

\* the pool a worker thread belongs to (WorkerPool::start hands each thread
\* a receiver of its own pool's queue)
PoolOf(w) == IF w \in KvWorkers THEN "KV" ELSE "Vector"

NoItem == [command |-> [op |-> "none"], request_id |-> 0, response_tx |-> "none"]

Idle == [state |-> "idle", item |-> NoItem]
Dead == [state |-> "dead", item |-> NoItem]
Busy(item) == [state |-> "busy", item |-> item]

NoResult == [tag |-> "none"]
ChanNone == [state |-> "none", result |-> NoResult]
ChanPending == [state |-> "pending", result |-> NoResult]
ChanDropped == [state |-> "dropped", result |-> NoResult]
ChanSent(r) == [state |-> "sent", result |-> r]

\* history of the writes the workers executed
NoWrite == [op |-> "none", value |-> "", ttl |-> None, at |-> 0]
Recorded(h, cmd, t) ==
    IF cmd.op = "Set"
    THEN [h EXCEPT ![cmd.key] = [op |-> "Set", value |-> cmd.value, ttl |-> cmd.ttl,
                                 at |-> IF cmd.ttl = None THEN 0 ELSE t]]
    ELSE IF cmd.op = "Del"
    THEN [h EXCEPT ![cmd.key] = [op |-> "Del", value |-> "", ttl |-> None, at |-> 0]]
    ELSE h

\* the same command on the store that was never swept (the order of the index
\* and the build profile do not matter to a KV command)
Unswept(u, cmd, t) == execute_command(u, EmptyMap, cmd, t, <<>>, FALSE).store

\* worker_loop: receiver.recv() returns a work item
WorkerRecv(w) ==
    /\ worker[w].state = "idle"
    /\ queue[PoolOf(w)] # <<>>
    /\ worker' = [worker EXCEPT ![w] = Busy(Head(queue[PoolOf(w)]))]
    /\ queue' = [queue EXCEPT ![PoolOf(w)] = Tail(@)]
    /\ UNCHANGED <<now, store, index, pc, cur, chan, wire, sweep, total_ops, lastWrite,
                 unswept, call, dec,
                   pool, metrics, thr>>

\* the Receiver of the oneshot channel was dropped with its connection task;
\* a value sent before that is dropped with it
ChanClosed(ch) == [state |-> "closed", result |-> ch.result]

\* oneshot Sender::send: Err, and nothing delivered, once the Receiver is gone
OneshotSend(ch, result) == IF ch.state = "closed" THEN ch ELSE ChanSent(result)

\* the Sender dropped without a send
OneshotDropSender(ch) == IF ch.state = "closed" THEN ch ELSE ChanDropped

\* variant: the worker unwraps the result of response_tx.send
AfterReplyUnwrap(ch) == IF ch.state = "closed" THEN Dead ELSE Idle

\* worker_loop after response_tx.send(result): an Err is logged, and the
\* loop goes on to its next recv
AfterReply(ch) == Idle

\* worker_loop: execute_command, response_tx.send, metrics.record_operation ;
\* a panic in execute_command unwinds the thread and drops response_tx
WorkerExecute(w) ==
    /\ worker[w].state = "busy"
    /\ \E order \in Orderings(DOMAIN index), debug \in BOOLEAN :
         LET item == worker[w].item
             out == execute_command(store, index, item.command, now, order, debug)
         IN  IF out.panic
             THEN /\ worker' = [worker EXCEPT ![w] = Dead]
                  /\ chan' = [chan EXCEPT ![item.response_tx] = OneshotDropSender(@)]
                  /\ UNCHANGED <<store, index, total_ops, pool, metrics, thr>>
             ELSE /\ worker' = [worker EXCEPT ![w] = AfterReply(chan[item.response_tx])]
                  /\ chan' = [chan EXCEPT ![item.response_tx] = OneshotSend(@, out.result)]
                  /\ store' = out.store
                  /\ index' = out.index
                  /\ total_ops' = total_ops + 1
    /\ lastWrite' = Recorded(lastWrite, worker[w].item.command, now)
    /\ unswept' = Unswept(unswept, worker[w].item.command, now)
    /\ UNCHANGED <<now, queue, pc, cur, wire, sweep, call, dec,
                   pool, metrics, thr>>

----------------------------------------------------------------------------
(* server/mod.rs : ConcurrentHandler::run, one tokio task per connection *)

ResponseError(msg) == [tag |-> "Error", data |-> msg]

\* runtime threads that cannot poll a task: those parked in a blocking
\* crossbeam send, and the one running cleanup_expired
OccupiedThreads ==
    Cardinality({c \in Conns : pc[c] = "send_blocked"}) + (IF sweep # 0 THEN 1 ELSE 0)

RuntimeFree == OccupiedThreads < RuntimeThreads

\* variant: every command goes to the KV queue
TargetQueueAllKV(cmd) == "KV"

\* the dispatcher rule
TargetQueue(cmd) == IF cmd.op \in {"VAdd", "VSearch"} THEN "Vector" ELSE "KV"

\* receiver handles of a pool's channel: its live workers, the CommandQueue
\* of the pool, and the clone each connection handler holds
ReceiverHandles(p) ==
    Cardinality({w \in Workers : PoolOf(w) = p /\ worker[w].state # "dead"})
    + Cardinality({c \in Conns : pc[c] # "closed"}) + 1

\* WorkerPool::new and start: the pool keeps its CommandQueue, a sender and a
\* receiver of the channel, next to the join handles of its workers
PoolNew == [p \in Pools |-> [sender |-> TRUE, join |-> "no", joined |-> {}]]

\* Metrics::new
MetricsNew ==
    [total_ops |-> 0, ops_by_command |-> EmptyMap, latency_sum_us |-> 0,
     latency_count |-> 0, latency_min_us |-> U64Max, latency_max_us |-> 0]

NoThreads == EmptyMap

\* crossbeam Sender::send fails only on a disconnected channel
SendIsErr(p) == ReceiverHandles(p) = 0

WorkItem(cmd, request_id, c) == [command |-> cmd, request_id |-> request_id, response_tx |-> c]

\* WorkResult -> Response
ResponseOf(result) ==
    IF result.tag = "Array"
    THEN [tag |-> "Array", data |-> result.data]
    ELSE result

\* variant: the reply frame is built with request id 0
WriteReplyZeroId(w, c, response, request_id, io_ok) ==
    IF io_ok
    THEN /\ wire' = [w EXCEPT ![c].written = @ + 1,
                              ![c].last = to_frame(response, 0)]
         /\ pc' = [pc EXCEPT ![c] = "read"]
    ELSE /\ wire' = w
         /\ pc' = [pc EXCEPT ![c] = "closed"]

\* variant: the task goes back to the socket without awaiting the reply
AfterSendNoAwait == "read"

\* where the task is once the send returned: at rx.await
AfterSend == "await"

\* framed.send(response.to_frame(request_id)).await? on the socket state w ;
\* an I/O error ends the task
WriteReply(w, c, response, request_id, io_ok) ==
    IF io_ok
    THEN /\ wire' = [w EXCEPT ![c].written = @ + 1,
                              ![c].last = to_frame(response, request_id)]
         /\ pc' = [pc EXCEPT ![c] = "read"]
    ELSE /\ wire' = w
         /\ pc' = [pc EXCEPT ![c] = "closed"]

\* one turn of the loop up to its first suspension: take the decoded
\* frame, parse it, pick the queue, send the work item
HandleFrame(c, frame, io_ok) ==
    /\ pc[c] = "read"
    /\ RuntimeFree
    /\ cur' = [cur EXCEPT ![c] = frame]
    /\ LET request_id == frame.request_id
           parsed == from_frame(frame)
           wire1 == [wire EXCEPT ![c].read = @ + 1]
       IN  IF parsed.tag = "Panic"
           THEN /\ pc' = [pc EXCEPT ![c] = "closed"]
                /\ wire' = wire1
                /\ UNCHANGED <<queue, chan>>
           ELSE IF parsed.tag = "Err"
           THEN /\ WriteReply(wire1, c, ResponseError(parsed.msg), request_id, io_ok)
                /\ UNCHANGED <<queue, chan>>
           ELSE LET target == TargetQueue(parsed.cmd)
                    item == WorkItem(parsed.cmd, request_id, c)
                IN  IF SendIsErr(target)
                    THEN /\ WriteReply(wire1, c, ResponseError(<<"Queue full">>),
                                       request_id, io_ok)
                         /\ UNCHANGED <<queue, chan>>
                    ELSE IF Len(queue[target]) < QueueCapacity
                    THEN /\ queue' = [queue EXCEPT ![target] = Append(@, item)]
                         /\ chan' = [chan EXCEPT ![c] = ChanPending]
                         /\ pc' = [pc EXCEPT ![c] = AfterSend]
                         /\ wire' = wire1
                    ELSE /\ chan' = [chan EXCEPT ![c] = ChanPending]
                         /\ pc' = [pc EXCEPT ![c] = "send_blocked"]
                         /\ wire' = wire1
                         /\ queue' = queue
    /\ UNCHANGED <<now, store, index, worker, sweep, total_ops, lastWrite,
                 unswept, call, dec,
                   pool, metrics, thr>>

\* the blocking send returns once the queue has room
SendUnblock(c) ==
    /\ pc[c] = "send_blocked"
    /\ LET cmd == from_frame(cur[c]).cmd
           target == TargetQueue(cmd)
       IN  /\ Len(queue[target]) < QueueCapacity
           /\ queue' = [queue EXCEPT ![target] =
                            Append(@, WorkItem(cmd, cur[c].request_id, c))]
    /\ pc' = [pc EXCEPT ![c] = AfterSend]
    /\ UNCHANGED <<now, store, index, worker, cur, chan, wire, sweep, total_ops, lastWrite,
                 unswept, call, dec,
                   pool, metrics, thr>>

\* rx.await completes with the worker's result or with RecvError
AwaitReply(c, io_ok) ==
    /\ pc[c] = "await"
    /\ chan[c].state \in {"sent", "dropped"}
    /\ RuntimeFree
    /\ WriteReply(wire, c,
                  IF chan[c].state = "sent" THEN ResponseOf(chan[c].result)
                  ELSE ResponseError(<<"Worker error">>),
                  cur[c].request_id, io_ok)
    /\ chan' = [chan EXCEPT ![c] = ChanNone]
    /\ UNCHANGED <<now, store, index, queue, worker, cur, sweep, total_ops, lastWrite,
                 unswept, call, dec,
                   pool, metrics, thr>>

\* framed.next() yields None (peer closed) or a codec error
PeerClose(c) ==
    /\ pc[c] = "read"
    /\ RuntimeFree
    /\ pc' = [pc EXCEPT ![c] = "closed"]
    /\ UNCHANGED <<now, store, index, queue, worker, cur, chan, wire, sweep, total_ops, lastWrite,
                 unswept, call, dec,
                   pool, metrics, thr>>

\* the connection task is dropped at rx.await (its JoinHandle aborted or the
\* runtime shut down): the Receiver of its reply channel goes with it
Cancel(c) ==
    /\ pc[c] = "await"
    /\ pc' = [pc EXCEPT ![c] = "closed"]
    /\ chan' = [chan EXCEPT ![c] = ChanClosed(@)]
    /\ UNCHANGED <<now, store, index, queue, worker, cur, wire, sweep, total_ops,
                   lastWrite, unswept, call, dec, pool, metrics, thr>>

----------------------------------------------------------------------------
(* storage/concurrent_ttl.rs : the sweeper task, one shard lock at a time *)

SweepShard ==
    /\ sweep = 0 => RuntimeFree
    /\ LET shard == IF sweep = 0 THEN 1 ELSE sweep
       IN  /\ store' = RetainShard(store, shard, now)
           /\ sweep' = IF shard = NumShards THEN 0 ELSE shard + 1
    /\ UNCHANGED <<now, index, queue, worker, pc, cur, chan, wire, total_ops, lastWrite,
                 unswept, call, dec,
                   pool, metrics, thr>>

\* a second passes
Tick ==
    /\ now < MaxTime
    /\ now' = now + 1
    /\ UNCHANGED <<store, index, queue, worker, pc, cur, chan, wire, sweep, total_ops, lastWrite,
                 unswept, call, dec,
                   pool, metrics, thr>>

----------------------------------------------------------------------------
(* Frames clients send *)

ReqIds == {1, 2}
Ttls == {0, 1, U64Max}

Ping(id) == FrameNew("Ping", id, [shape |-> "empty"])
KeyFrame(op, id, k) == FrameNew(op, id, [shape |-> "key", key |-> k])
SetFrame(id, k, v, t) ==
    FrameNew("Set", id, [shape |-> "set", key |-> k, value |-> v, ttl |-> t])
VAddFrame(id, k, v) ==
    FrameNew("VAdd", id, [shape |-> "vadd", key |-> k, count |-> Len(v), vector |-> v])
VSearchFrame(id, v, k) ==
    FrameNew("VSearch", id, [shape |-> "vsearch", count |-> Len(v), vector |-> v, k |-> k])

\* the store workload: every KV command, every value and ttl on k1
StoreFrames ==
    {KeyFrame(op, 1, k) : op \in {"Get", "Del", "Exists"}, k \in Keys}
    \cup {SetFrame(1, "k1", v, t) : v \in Values, t \in Ttls}
    \cup {SetFrame(1, "k2", "v1", 1)}

\* the pipeline workload of each client
ClientFrames(c) ==
    IF c = "c1" THEN
        {Ping(1), Ping(2), SetFrame(2, "k1", "v1", U64Max), KeyFrame("Get", 1, "k1"),
         FrameNew("MGet", 1, [shape |-> "empty"]), VSearchFrame(2, <<1, 0>>, 1)}
    ELSE
        {VAddFrame(1, "k1", <<1, 0>>), VAddFrame(2, "k2", <<1>>),
         VSearchFrame(1, <<1, 0>>, 1), KeyFrame("VAdd", 1, "k1")}

\* a vector of the index dimension: v followed by zeros
Pad(v) == v \o [i \in 1..(Dimension - Len(v)) |-> 0]
\* vectors one short of and one past the index dimension
ShortVector == [i \in 1..(Dimension - 1) |-> 1]
LongVector == [i \in 1..(Dimension + 1) |-> 1]

\* the vector workload of one client
VectorFrames ==
    {VAddFrame(1, "k1", Pad(<<1, 0>>)), VAddFrame(1, "k1", ShortVector),
     VAddFrame(1, "k1", LongVector), VAddFrame(1, "k2", Pad(<<0, 1>>)),
     VSearchFrame(1, Pad(<<1, 0>>), 1), VSearchFrame(1, ShortVector, 1),
     VSearchFrame(1, LongVector, 1)}

----------------------------------------------------------------------------

NoCall == [fn |-> "none"]
NoDecoder == [state |-> "none"]

\* everything but the store and the threads inside store operations
QuietInit ==
    /\ now = 0
    /\ index = EmptyMap
    /\ queue = [p \in Pools |-> <<>>]
    /\ worker = [w \in Workers |-> Idle]
    /\ pc = [c \in Conns |-> "read"]
    /\ cur = [c \in Conns |-> NoFrame]
    /\ chan = [c \in Conns |-> ChanNone]
    /\ wire = [c \in Conns |-> [read |-> 0, written |-> 0, last |-> NoFrame]]
    /\ sweep = 0
    /\ total_ops = 0
    /\ lastWrite = [k \in Keys |-> NoWrite]
    /\ unswept = EmptyMap
    /\ pool = PoolNew
    /\ metrics = MetricsNew
    /\ call = NoCall
    /\ dec = NoDecoder

ServerInit ==
    /\ now = 0
    /\ store = EmptyMap
    /\ index = EmptyMap
    /\ queue = [p \in Pools |-> <<>>]
    /\ worker = [w \in Workers |-> Idle]
    /\ pc = [c \in Conns |-> "read"]
    /\ cur = [c \in Conns |-> NoFrame]
    /\ chan = [c \in Conns |-> ChanNone]
    /\ wire = [c \in Conns |-> [read |-> 0, written |-> 0, last |-> NoFrame]]
    /\ sweep = 0
    /\ total_ops = 0
    /\ lastWrite = [k \in Keys |-> NoWrite]
    /\ unswept = EmptyMap
    /\ pool = PoolNew
    /\ metrics = MetricsNew
    /\ thr = NoThreads

Init == ServerInit /\ call = NoCall /\ dec = NoDecoder

PipelineConns == {"c1", "c2"}

Next ==
    \/ \E c \in PipelineConns : \E f \in ClientFrames(c), io_ok \in BOOLEAN :
            wire[c].read < MaxFrames /\ HandleFrame(c, f, io_ok)
    \/ \E c \in PipelineConns : SendUnblock(c)
    \/ \E c \in PipelineConns, io_ok \in BOOLEAN : AwaitReply(c, io_ok)
    \/ \E c \in PipelineConns : PeerClose(c)
    \/ \E w \in Workers : WorkerRecv(w)
    \/ \E w \in Workers : WorkerExecute(w)

Spec == Init /\ [][Next]_vars

\* the worker threads are scheduled by the operating system and every task
\* that can run is polled by the runtime
Scheduled ==
    /\ \A w \in Workers : WF_vars(WorkerRecv(w)) /\ WF_vars(WorkerExecute(w))
    /\ \A c \in PipelineConns :
          WF_vars(SendUnblock(c)) /\ WF_vars(\E io_ok \in BOOLEAN : AwaitReply(c, io_ok))

LiveSpec == Init /\ [][Next]_vars /\ Scheduled

\* a vector flood on three connections next to one KV client
FloodFrames(c) == IF c = "c1" THEN {Ping(1)} ELSE {VSearchFrame(1, <<0, 1>>, 1)}

FloodNext ==
    \/ \E c \in Conns : \E f \in FloodFrames(c) :
            wire[c].read < MaxFrames /\ HandleFrame(c, f, TRUE)
    \/ \E c \in Conns : SendUnblock(c)
    \/ \E c \in Conns : AwaitReply(c, TRUE)
    \/ \E w \in Workers : WorkerRecv(w)
    \/ \E w \in Workers : WorkerExecute(w)

FloodSpec == Init /\ [][FloodNext]_vars

\* the store under its full command set, with the clock running
StoreConns == {"c1"}
\* the store client against a KV pool of one worker
StoreWorkers == {"kv1"}

StoreNext ==
    \/ \E c \in StoreConns, f \in StoreFrames :
            wire[c].read < MaxStoreFrames /\ HandleFrame(c, f, TRUE)
    \/ \E c \in StoreConns : AwaitReply(c, TRUE)
    \/ \E w \in StoreWorkers : WorkerRecv(w)
    \/ \E w \in StoreWorkers : WorkerExecute(w)
    \/ SweepShard
    \/ Tick

StoreSpec == Init /\ [][StoreNext]_vars

\* one client of the Vector pool
VectorConns == {"c1"}

VectorNext ==
    \/ \E c \in VectorConns, f \in VectorFrames :
            wire[c].read < MaxVecFrames /\ HandleFrame(c, f, TRUE)
    \/ \E c \in VectorConns : AwaitReply(c, TRUE)
    \/ \E w \in VecWorkers : WorkerRecv(w)
    \/ \E w \in VecWorkers : WorkerExecute(w)

VectorSpec == Init /\ [][VectorNext]_vars

\* one client storing near vectors and searching with every k
SearchFrames ==
    {VAddFrame(1, key, Pad(<<1, 0>>)) : key \in Keys}
    \cup {VSearchFrame(2, Pad(<<1, 0>>), k) : k \in 0..MaxK}
    \cup {FrameNew("VSearch", 2, [shape |-> "vector", count |-> Dimension,
                                  vector |-> Pad(<<1, 0>>)])}

SearchNext ==
    \/ \E c \in VectorConns, f \in SearchFrames :
            wire[c].read < MaxVecFrames /\ HandleFrame(c, f, TRUE)
    \/ \E c \in VectorConns : AwaitReply(c, TRUE)
    \/ \E w \in VecWorkers : WorkerRecv(w)
    \/ \E w \in VecWorkers : WorkerExecute(w)

SearchSpec == Init /\ [][SearchNext]_vars

----------------------------------------------------------------------------
(* One client sending frames that decode but may not parse *)

ParseFrames ==
    {Ping(1),
     FrameNew("Get", 1, [shape |-> "empty"]),
     FrameNew("Del", 2, [shape |-> "truncated"]),
     FrameNew("Set", 1, [shape |-> "key", key |-> "k1"]),
     FrameNew("VAdd", 2, [shape |-> "vadd", key |-> "k1", count |-> 2, vector |-> <<1>>]),
     FrameNew("VSearch", 1, [shape |-> "vsearch", count |-> 2, vector |-> <<1>>, k |-> 1]),
     FrameNew("VAdd", 1, [shape |-> "key", key |-> "k1"]),
     FrameNew("VSearch", 2, [shape |-> "empty"]),
     FrameNew("Pong", 2, [shape |-> "empty"])}
    \cup {FrameNew(op, id, [shape |-> "empty"]) : op \in ExtendedOpcodes, id \in ReqIds}

ParseConns == {"c1"}

ParseNext ==
    \/ \E c \in ParseConns, f \in ParseFrames :
            wire[c].read < MaxParseFrames /\ HandleFrame(c, f, TRUE)
    \/ \E c \in ParseConns : AwaitReply(c, TRUE)
    \/ \E w \in KvWorkers : WorkerRecv(w)
    \/ \E w \in KvWorkers : WorkerExecute(w)

ParseSpec == Init /\ [][ParseNext]_vars

----------------------------------------------------------------------------
(* The embedding store on its own: set and find_nearest *)

VecKeys == Keys \cup {"k3"}
FindVectors == {Pad(<<1, 0>>), Pad(<<2, 0>>), Pad(<<3, 1>>), Pad(<<1, 1>>), Pad(<<0, 0>>)}
FindQueries == {Pad(<<1, 0>>), Pad(<<1, 1>>)}

NewCall == [fn |-> "new", inserted |-> <<>>, query |-> <<>>, k |-> 0, result |-> <<>>,
            keys |-> <<>>]

FindInit == ServerInit /\ call = NewCall /\ dec = NoDecoder

\* EmbeddingStore::set under a key not yet stored
EmbSet(key, embedding) ==
    /\ key \notin DOMAIN index
    /\ LET set == EmbeddingStoreSet(index, key, EmbeddingEntryNew(embedding, key, now))
       IN  /\ index' = set.index
           /\ call' = [NewCall EXCEPT !.fn = "set",
                                      !.inserted = IF set.ok THEN Append(call.inserted, key)
                                                   ELSE call.inserted]
    /\ UNCHANGED <<now, store, queue, worker, pc, cur, chan, wire, sweep, total_ops,
                   lastWrite, unswept, dec,
                   pool, metrics, thr>>

\* EmbeddingStore::find_nearest and SemanticCache::semantic_get on the index
\* as it is, the map iterated in any order
FindNearest(query, k) ==
    /\ \E iter \in Orderings(DOMAIN index) :
           call' = [call EXCEPT !.fn = "find_nearest", !.query = query, !.k = k,
                                !.result = find_nearest(index, iter, query, k),
                                !.keys = semantic_get(index, iter, query)]
    /\ UNCHANGED <<serverVars, dec>>

FindNext ==
    \/ \E key \in VecKeys, v \in FindVectors \cup {ShortVector} : EmbSet(key, v)
    \/ \E query \in FindQueries, k \in 0..MaxK : FindNearest(query, k)

FindSpec == FindInit /\ [][FindNext]_vars

----------------------------------------------------------------------------
(* protocol/frame.rs, command.rs, response.rs, codec.rs on the bytes of the
   wire.  A byte is a number in 0..255 and Bytes a sequence of them. *)

U32Max == 31             \* u32::MAX, scaled down: `as u32` keeps a value modulo U32Max + 1

MAGIC == <<67, 69, 76, 88>>
VERSION == 1
HEADER_SIZE == 22

\* enum OpCode, #[repr(u8)]
OpCodeAsU8 ==
    [Ping |-> 1, Pong |-> 2, Get |-> 3, Set |-> 4, Del |-> 5, Exists |-> 6,
     MGet |-> 7, MSet |-> 8, MDel |-> 9, Incr |-> 10, Decr |-> 11, IncrBy |-> 12,
     DecrBy |-> 13, Scan |-> 14, Keys |-> 15, Ok |-> 16, Error |-> 17, Value |-> 18,
     Nil |-> 19, Integer |-> 20, Array |-> 21, VAdd |-> 32, VSearch |-> 33]

\* OpCode::from_u8, "none" for Option::None
from_u8(value) ==
    IF \E op \in DOMAIN OpCodeAsU8 : OpCodeAsU8[op] = value
    THEN CHOOSE op \in DOMAIN OpCodeAsU8 : OpCodeAsU8[op] = value
    ELSE "none"

\* the cast `as u32`
AsU32(n) == n % (U32Max + 1)

Drop(buf, n) == SubSeq(buf, n + 1, Len(buf))

\* put_u16 / put_u32 / put_u64: n in w bytes, big-endian
RECURSIVE put_uint(_, _)
put_uint(n, w) ==
    IF w = 0 THEN <<>> ELSE Append(put_uint(n \div 256, w - 1), n % 256)

\* get_u16 / get_u32 / get_u64 on exactly the bytes of the integer
RECURSIVE get_uint(_)
get_uint(b) ==
    IF b = <<>> THEN 0 ELSE 256 * get_uint(SubSeq(b, 1, Len(b) - 1)) + b[Len(b)]

\* put_i64: two's complement in 8 bytes
put_i64(n) ==
    IF n >= 0 THEN put_uint(n, 8)
    ELSE [i \in 1..8 |-> 255 - put_uint(-n - 1, 8)[i]]

\* i64::from_be_bytes
i64_from_be_bytes(b) ==
    IF b[1] < 128 THEN get_uint(b)
    ELSE -get_uint([i \in 1..8 |-> 255 - b[i]]) - 1

\* put_f32: the IEEE 754 bits of the components the model uses
put_f32(f) ==
    CASE f = 0 -> <<0, 0, 0, 0>>
      [] f = 1 -> <<63, 128, 0, 0>>
      [] f = 2 -> <<64, 0, 0, 0>>
      [] f = -1 -> <<191, 128, 0, 0>>

\* get_f32
get_f32(b) == CHOOSE f \in {0, 1, 2, -1} : put_f32(f) = b

\* String::from_utf8_lossy on ASCII and two-byte sequences: a byte that
\* starts no valid sequence becomes U+FFFD
RECURSIVE from_utf8_lossy(_)
from_utf8_lossy(b) ==
    IF b = <<>> THEN <<>>
    ELSE IF b[1] < 128 THEN <<b[1]>> \o from_utf8_lossy(Drop(b, 1))
    ELSE IF b[1] \in 194..223 /\ Len(b) >= 2 /\ b[2] \in 128..191
         THEN <<b[1], b[2]>> \o from_utf8_lossy(Drop(b, 2))
    ELSE <<239, 191, 189>> \o from_utf8_lossy(Drop(b, 1))

\* FrameHeader::new(..).with_payload_len(..)
FrameHeaderNew(opcode, request_id, len) ==
    [version |-> VERSION, opcode |-> opcode, flags |-> 0, payload_len |-> len,
     request_id |-> request_id]

\* Frame::new on bytes
Frame_new(opcode, request_id, payload) ==
    [header |-> FrameHeaderNew(opcode, request_id, AsU32(Len(payload))),
     payload |-> payload]

\* FrameHeader::encode
FrameHeader_encode(h) ==
    MAGIC \o <<h.version, OpCodeAsU8[h.opcode]>> \o put_uint(h.flags, 2)
          \o put_uint(h.payload_len, 4) \o put_uint(h.request_id, 8) \o <<0, 0>>

\* variant: a header of another protocol version is refused
FrameHeader_decodeStrict(b) ==
    IF SubSeq(b, 1, 4) # MAGIC THEN ParseErr(<<"Invalid magic bytes">>)
    ELSE IF b[5] # VERSION THEN ParseErr(<<"Unsupported version: ", b[5]>>)
    ELSE IF from_u8(b[6]) = "none" THEN ParseErr(<<"Invalid opcode: ", b[6]>>)
    ELSE ParseOk([version |-> b[5], opcode |-> from_u8(b[6]),
                  flags |-> get_uint(SubSeq(b, 7, 8)),
                  payload_len |-> get_uint(SubSeq(b, 9, 12)),
                  request_id |-> get_uint(SubSeq(b, 13, 20))])

\* FrameHeader::decode on the HEADER_SIZE bytes split off the buffer
FrameHeader_decode(b) ==
    IF SubSeq(b, 1, 4) # MAGIC THEN ParseErr(<<"Invalid magic bytes">>)
    ELSE IF from_u8(b[6]) = "none" THEN ParseErr(<<"Invalid opcode: ", b[6]>>)
    ELSE ParseOk([version |-> b[5], opcode |-> from_u8(b[6]),
                  flags |-> get_uint(SubSeq(b, 7, 8)),
                  payload_len |-> get_uint(SubSeq(b, 9, 12)),
                  request_id |-> get_uint(SubSeq(b, 13, 20))])

\* Frame::encode
Frame_encode(frame) == FrameHeader_encode(frame.header) \o frame.payload

\* Command::write_length_prefixed_buf
write_length_prefixed(data) == put_uint(AsU32(Len(data)), 4) \o data

ReadOk(v, rest) == [tag |-> "Ok", cmd |-> v, rest |-> rest]

\* Command::read_length_prefixed_buf
read_length_prefixed_buf(buf) ==
    IF Len(buf) < 4 THEN ParseErr(<<"Not enough data for length prefix">>)
    ELSE IF Len(buf) - 4 < get_uint(SubSeq(buf, 1, 4))
         THEN ParseErr(<<"Not enough data for payload">>)
    ELSE ReadOk(SubSeq(buf, 5, 4 + get_uint(SubSeq(buf, 1, 4))),
                Drop(buf, 4 + get_uint(SubSeq(buf, 1, 4))))

\* the loop `for &f in vector { buf.put_f32(f) }`
RECURSIVE put_f32s(_)
put_f32s(vector) ==
    IF vector = <<>> THEN <<>> ELSE put_f32(vector[1]) \o put_f32s(Drop(vector, 1))

\* the loop `for _ in 0..count { .. vector.push(payload.get_f32()) }`
RECURSIVE get_f32s(_, _)
get_f32s(buf, count) ==
    IF count = 0 THEN ReadOk(<<>>, buf)
    ELSE IF Len(buf) < 4 THEN ParseErr(<<"Insufficient vector data">>)
    ELSE LET r == get_f32s(Drop(buf, 4), count - 1)
         IN  IF r.tag # "Ok" THEN r
             ELSE ReadOk(<<get_f32(SubSeq(buf, 1, 4))>> \o r.cmd, r.rest)

\* Command::encode: the opcode and the payload bytes
Command_encode(cmd) ==
    IF cmd.op = "Ping" THEN [opcode |-> "Ping", payload |-> <<>>]
    ELSE IF cmd.op \in {"Get", "Del", "Exists"}
         THEN [opcode |-> cmd.op, payload |-> write_length_prefixed(cmd.key)]
    ELSE IF cmd.op = "Set"
         THEN [opcode |-> "Set",
               payload |-> write_length_prefixed(cmd.key) \o write_length_prefixed(cmd.value)
                           \o put_uint(IF cmd.ttl = None THEN 0 ELSE cmd.ttl, 8)]
    ELSE IF cmd.op = "VAdd"
         THEN [opcode |-> "VAdd",
               payload |-> write_length_prefixed(cmd.key)
                           \o put_uint(AsU32(Len(cmd.vector)), 4) \o put_f32s(cmd.vector)]
    ELSE [opcode |-> "VSearch",
          payload |-> put_uint(AsU32(Len(cmd.vector)), 4) \o put_f32s(cmd.vector)
                      \o put_uint(AsU32(cmd.k), 4)]

\* Command::from_frame on the bytes of the payload
Command_from_frame(frame) ==
    LET op == frame.header.opcode
        p == frame.payload
        key == read_length_prefixed_buf(p)
    IN  IF op = "Ping" THEN ParseOk([op |-> "Ping"])
        ELSE IF op \in {"Get", "Del", "Exists"} THEN
            IF key.tag = "Ok" THEN ParseOk([op |-> op, key |-> key.cmd]) ELSE key
        ELSE IF op = "Set" THEN
            IF key.tag # "Ok" THEN key
            ELSE LET value == read_length_prefixed_buf(key.rest)
                 IN  IF value.tag # "Ok" THEN value
                     ELSE ParseOk([op |-> "Set", key |-> key.cmd, value |-> value.cmd,
                                   ttl |-> IF Len(value.rest) >= 8
                                              /\ get_uint(SubSeq(value.rest, 1, 8)) > 0
                                           THEN get_uint(SubSeq(value.rest, 1, 8))
                                           ELSE None])
        ELSE IF op = "VAdd" THEN
            IF key.tag # "Ok" THEN key
            ELSE IF Len(key.rest) < 4 THEN ParsePanic     \* get_u32 on a short buffer
            ELSE LET v == get_f32s(Drop(key.rest, 4), get_uint(SubSeq(key.rest, 1, 4)))
                 IN  IF v.tag # "Ok" THEN v
                     ELSE ParseOk([op |-> "VAdd", key |-> key.cmd, vector |-> v.cmd])
        ELSE IF op = "VSearch" THEN
            IF Len(p) < 4 THEN ParsePanic                 \* get_u32 on a short buffer
            ELSE LET v == get_f32s(Drop(p, 4), get_uint(SubSeq(p, 1, 4)))
                 IN  IF v.tag # "Ok" THEN v
                     ELSE ParseOk([op |-> "VSearch", vector |-> v.cmd,
                                   k |-> IF Len(v.rest) >= 4
                                         THEN get_uint(SubSeq(v.rest, 1, 4))
                                         ELSE DefaultK])
        ELSE UnexpectedOpcode(op)

\* the loop writing the items of Response::Array
RECURSIVE put_items(_)
put_items(items) ==
    IF items = <<>> THEN <<>>
    ELSE put_uint(AsU32(Len(items[1])), 4) \o items[1] \o put_items(Drop(items, 1))

\* the loop reading the items of an ARRAY payload
RECURSIVE get_items(_, _)
get_items(buf, count) ==
    IF count = 0 THEN ReadOk(<<>>, buf)
    ELSE IF Len(buf) < 4 THEN ParseErr(<<"Insufficient array data">>)
    ELSE IF Len(buf) - 4 < get_uint(SubSeq(buf, 1, 4))
         THEN ParseErr(<<"Insufficient item data">>)
    ELSE LET len == get_uint(SubSeq(buf, 1, 4))
             r == get_items(Drop(buf, 4 + len), count - 1)
         IN  IF r.tag # "Ok" THEN r
             ELSE ReadOk(<<SubSeq(buf, 5, 4 + len)>> \o r.cmd, r.rest)

\* Response::to_frame on bytes
Response_to_frame(response, request_id) ==
    IF response.tag \in {"Ok", "Nil", "Pong"} THEN Frame_new(response.tag, request_id, <<>>)
    ELSE IF response.tag \in {"Value", "Error"}
         THEN Frame_new(response.tag, request_id, response.data)
    ELSE IF response.tag = "Integer"
         THEN Frame_new("Integer", request_id, put_i64(response.data))
    ELSE Frame_new("Array", request_id,
                   put_uint(AsU32(Len(response.data)), 4) \o put_items(response.data))

\* Response::from_frame
Response_from_frame(frame) ==
    LET op == frame.header.opcode
        p == frame.payload
    IN  IF op \in {"Ok", "Nil", "Pong"} THEN ParseOk([tag |-> op])
        ELSE IF op = "Value" THEN ParseOk([tag |-> "Value", data |-> p])
        ELSE IF op = "Integer" THEN
            IF Len(p) >= 8
            THEN ParseOk([tag |-> "Integer", data |-> i64_from_be_bytes(SubSeq(p, 1, 8))])
            ELSE ParseErr(<<"Invalid integer payload">>)
        ELSE IF op = "Error" THEN ParseOk([tag |-> "Error", data |-> from_utf8_lossy(p)])
        ELSE IF op = "Array" THEN
            IF Len(p) < 4 THEN ParseErr(<<"Invalid array payload">>)
            ELSE LET r == get_items(Drop(p, 4), get_uint(SubSeq(p, 1, 4)))
                 IN  IF r.tag # "Ok" THEN r
                     ELSE ParseOk([tag |-> "Array", data |-> r.cmd])
        ELSE ParseErr(<<"Unexpected opcode for response: ", op>>)

\* DecodeState
StateHeader == [state |-> "Header"]
StatePayload(header) == [state |-> "Payload", header |-> header]

DecodeNone(state, src) == [tag |-> "None", state |-> state, src |-> src]
DecodeSome(frame, src) == [tag |-> "Some", state |-> StateHeader, src |-> src, frame |-> frame]
DecodeErr(msg, src) == [tag |-> "Err", state |-> StateHeader, src |-> src, msg |-> msg]

\* variant: the payload is everything the buffer holds
SplitPayloadAll(header, src) == [payload |-> src, src |-> <<>>]

\* VcpCodec::decode, `src.split_to(payload_len)`
SplitPayload(header, src) ==
    [payload |-> SubSeq(src, 1, header.payload_len), src |-> Drop(src, header.payload_len)]

\* VcpCodec::decode, the arm DecodeState::Payload
DecodePayload(header, src) ==
    IF Len(src) < header.payload_len THEN DecodeNone(StatePayload(header), src)
    ELSE DecodeSome([header |-> header, payload |-> SplitPayload(header, src).payload],
                    SplitPayload(header, src).src)

\* VcpCodec::decode: one call, on the codec's state and the read buffer
VcpCodec_decode(state, src) ==
    IF state.state = "Header" THEN
        IF Len(src) < HEADER_SIZE THEN DecodeNone(state, src)
        ELSE LET h == FrameHeader_decode(SubSeq(src, 1, HEADER_SIZE))
             IN  IF h.tag # "Ok" THEN DecodeErr(h.msg, Drop(src, HEADER_SIZE))
                 ELSE DecodePayload(h.cmd, Drop(src, HEADER_SIZE))
    ELSE DecodePayload(state.header, src)

\* VcpCodec::encode: the bytes appended to dst
VcpCodec_encode(item) == Frame_encode(item)

----------------------------------------------------------------------------
(* Commands, responses and frames through encode and decode *)

CodecKeys == {<<107, 49>>, <<107, 50>>}
CodecValues == {<<>>, <<118, 49>>}
CodecVectors == {<<>>, <<1, 0>>, <<0, 1>>, <<2, -1>>}
CodecKs == {1, DefaultK, U32Max, U32Max + 1}
LongKey(byte) == [i \in 1..14 |-> byte]

CodecCommands ==
    {[op |-> "Ping"]}
    \cup {[op |-> op, key |-> key] : op \in {"Get", "Del", "Exists"}, key \in CodecKeys}
    \cup {[op |-> "Set", key |-> key, value |-> value, ttl |-> ttl] :
            key \in CodecKeys, value \in CodecValues, ttl \in {None} \cup Ttls}
    \cup {[op |-> "VAdd", key |-> key, vector |-> v] : key \in CodecKeys, v \in CodecVectors}
    \cup {[op |-> "VSearch", vector |-> v, k |-> k] : v \in CodecVectors, k \in CodecKs}

\* what execute_command and the handler reply with; an ARRAY holds at most
\* max_results keys of the index
CodecResponses ==
    {[tag |-> t] : t \in {"Ok", "Nil", "Pong"}}
    \cup {[tag |-> "Value", data |-> v] : v \in CodecValues}
    \cup {[tag |-> "Integer", data |-> n] : n \in {-2, -1, 0, 1, 300}}
    \cup {[tag |-> "Error", data |-> m] : m \in {<<81, 117, 101, 117, 101>>, <<195, 169>>}}
    \cup {[tag |-> "Array", data |-> a] :
            a \in {<<>>, <<<<107, 49>>>>, <<<<107, 49>>, <<107, 50>>>>,
                   <<LongKey(97), LongKey(98)>>}}

CodecFrames ==
    {Frame_new(op, id, p) : op \in {"Ping", "Set", "Value", "Keys"}, id \in ReqIds,
                            p \in {<<>>, <<0, 0, 0, 1, 107>>}}

CodecInit ==
    /\ ServerInit
    /\ dec = NoDecoder
    /\ call \in {[fn |-> "command", input |-> c, request_id |-> id] :
                    c \in CodecCommands, id \in ReqIds}
           \cup {[fn |-> "response", input |-> r, request_id |-> id] :
                    r \in CodecResponses, id \in ReqIds}
           \cup {[fn |-> "frame", input |-> f] : f \in CodecFrames}

\* the frame a codec yields from the bytes another codec wrote for `frame`
Transmit(frame) == VcpCodec_decode(StateHeader, VcpCodec_encode(frame))

\* Command::encode, Frame::new, the codec, Command::from_frame
CommandRoundTrip ==
    /\ call.fn = "command"
    /\ LET e == Command_encode(call.input)
           frame == Frame_new(e.opcode, call.request_id, e.payload)
       IN  call' = [fn |-> "command_round_trip", input |-> call.input, frame |-> frame,
                    bytes |-> VcpCodec_encode(frame), decoded |-> Transmit(frame),
                    output |-> Command_from_frame(frame)]
    /\ UNCHANGED <<serverVars, dec>>

\* Response::to_frame, the codec, Response::from_frame
ResponseRoundTrip ==
    /\ call.fn = "response"
    /\ LET frame == Response_to_frame(call.input, call.request_id)
       IN  call' = [fn |-> "response_round_trip", input |-> call.input, frame |-> frame,
                    bytes |-> VcpCodec_encode(frame), decoded |-> Transmit(frame),
                    output |-> Response_from_frame(frame)]
    /\ UNCHANGED <<serverVars, dec>>

\* VcpCodec::encode then VcpCodec::decode
FrameRoundTrip ==
    /\ call.fn = "frame"
    /\ call' = [fn |-> "frame_round_trip", input |-> call.input, frame |-> call.input,
                bytes |-> VcpCodec_encode(call.input), decoded |-> Transmit(call.input)]
    /\ UNCHANGED <<serverVars, dec>>

CodecNext == CommandRoundTrip \/ ResponseRoundTrip \/ FrameRoundTrip

CodecSpec == CodecInit /\ [][CodecNext]_vars

----------------------------------------------------------------------------
(* One decoder fed the bytes of a sequence of frames in pieces *)

\* frames as a peer's Frame::new builds them, the payload within the length
\* field
StreamFrames ==
    {Frame_new("Ping", 1, <<>>),
     Frame_new("Get", 2, <<0, 0, 0, 1, 107>>),
     Frame_new("Value", 1, <<118>>)}

Streams == UNION {[1..n -> StreamFrames] : n \in 1..MaxStreamFrames}

\* the bytes a peer writes for the frames, one after the other
RECURSIVE Encoded(_)
Encoded(frames) ==
    IF frames = <<>> THEN <<>>
    ELSE VcpCodec_encode(frames[1]) \o Encoded(Drop(frames, 1))

\* VcpCodec::new and an empty read buffer; `stream` is what the peer has
\* written and the socket has not delivered yet
NewDecoder(frames) ==
    [frames |-> frames, stream |-> Encoded(frames), src |-> <<>>, state |-> StateHeader,
     out |-> <<>>, last |-> "new", waited |-> {}, yieldedAfter |-> {}]

ChunkInit ==
    /\ ServerInit
    /\ call = NoCall
    /\ dec \in {NewDecoder(frames) : frames \in Streams}

\* a read of the socket appends the next n bytes to the read buffer
Deliver(n) ==
    /\ n \in 1..Len(dec.stream)
    /\ dec' = [dec EXCEPT !.src = dec.src \o SubSeq(dec.stream, 1, n),
                          !.stream = Drop(dec.stream, n),
                          !.last = "read"]
    /\ UNCHANGED <<serverVars, call>>

\* one call of VcpCodec::decode on the read buffer
Decode ==
    /\ dec.last # "Err"
    /\ LET r == VcpCodec_decode(dec.state, dec.src)
       IN  dec' = [dec EXCEPT
                     !.state = r.state,
                     !.src = r.src,
                     !.last = r.tag,
                     !.out = IF r.tag = "Some" THEN Append(dec.out, r.frame) ELSE dec.out,
                     !.waited = IF r.tag = "None" THEN dec.waited \cup {r.state.state}
                                ELSE {},
                     !.yieldedAfter = IF r.tag = "Some" THEN dec.waited
                                      ELSE dec.yieldedAfter]
    /\ UNCHANGED <<serverVars, call>>

ChunkNext ==
    \/ \E n \in 1..(MaxStreamFrames * (HEADER_SIZE + 5)) : Deliver(n)
    \/ Decode

ChunkSpec == ChunkInit /\ [][ChunkNext]_vars

----------------------------------------------------------------------------
(* server/worker_pool.rs : the end of the workers and WorkerPool::join *)

\* WorkerPool.handles, in the order start pushed them
Handles(p) == IF p = "KV" THEN <<"kv1", "kv2">> ELSE <<"vec1">>

\* WorkerPool::num_workers
num_workers(p) == Len(Handles(p))

\* every Sender of the pool's channel is gone: the handlers' clones of the
\* CommandQueue and the one the WorkerPool itself holds
Disconnected(p) ==
    /\ ~pool[p].sender
    /\ \A c \in Conns : pc[c] = "closed"

Exited == [state |-> "exited", item |-> NoItem]

\* worker_loop: receiver.recv() is Err on an empty, disconnected channel
WorkerExit(w) ==
    /\ worker[w].state = "idle"
    /\ queue[PoolOf(w)] = <<>>
    /\ Disconnected(PoolOf(w))
    /\ worker' = [worker EXCEPT ![w] = Exited]
    /\ UNCHANGED <<now, store, index, queue, pc, cur, chan, wire, sweep, total_ops,
                   lastWrite, unswept, call, dec, pool, metrics, thr>>

\* the owner drops the pool without joining it: the join handles detach and
\* the pool's CommandQueue is dropped
DropPool(p) ==
    /\ pool[p].join = "no"
    /\ pool' = [pool EXCEPT ![p] = [@ EXCEPT !.sender = FALSE, !.join = "dropped"]]
    /\ UNCHANGED <<now, store, index, queue, worker, pc, cur, chan, wire, sweep,
                   total_ops, lastWrite, unswept, call, dec, metrics, thr>>

\* WorkerPool::join(self) is called; self.queue lives until join returns
Join(p) ==
    /\ pool[p].join = "no"
    /\ pool' = [pool EXCEPT ![p] = [@ EXCEPT !.join = "joining"]]
    /\ UNCHANGED <<now, store, index, queue, worker, pc, cur, chan, wire, sweep,
                   total_ops, lastWrite, unswept, call, dec, metrics, thr>>

\* WorkerPool::join: handle.join() of the next handle returns once its thread
\* has ended; after the last one join returns and drops what is left of self
JoinHandle(p) ==
    /\ pool[p].join = "joining"
    /\ LET n == Cardinality(pool[p].joined) + 1
           w == Handles(p)[n]
       IN  /\ worker[w].state \in {"exited", "dead"}
           /\ pool' = [pool EXCEPT ![p] =
                         IF n = Len(Handles(p))
                         THEN [sender |-> FALSE, join |-> "returned",
                               joined |-> @.joined \cup {w}]
                         ELSE [@ EXCEPT !.joined = @ \cup {w}]]
    /\ UNCHANGED <<now, store, index, queue, worker, pc, cur, chan, wire, sweep,
                   total_ops, lastWrite, unswept, call, dec, metrics, thr>>

ShutdownConns == {"c1"}
ShutdownFrames == {Ping(1), SetFrame(2, "k1", "v1", U64Max)}

ShutdownWorkerStep ==
    \/ \E w \in KvWorkers : WorkerRecv(w)
    \/ \E w \in KvWorkers : WorkerExecute(w)
    \/ \E w \in KvWorkers : WorkerExit(w)

ShutdownNext ==
    \/ \E c \in ShutdownConns, f \in ShutdownFrames :
            wire[c].read < MaxFrames /\ HandleFrame(c, f, TRUE)
    \/ \E c \in ShutdownConns : AwaitReply(c, TRUE)
    \/ \E c \in Conns : PeerClose(c)
    \/ ShutdownWorkerStep
    \/ DropPool("KV")
    \/ Join("KV")
    \/ JoinHandle("KV")

\* the worker threads and the thread inside join are scheduled
ShutdownSpec ==
    /\ Init
    /\ [][ShutdownNext]_vars
    /\ WF_vars(ShutdownWorkerStep)
    /\ WF_vars(JoinHandle("KV"))

----------------------------------------------------------------------------
(* Connection tasks dropped while their request is with the one KV worker *)

CancelConns == {"c1", "c2"}
CancelWorkers == {"kv1"}
CancelFrames ==
    {SetFrame(1, "k1", "v1", 1), SetFrame(1, "k1", "v2", U64Max), KeyFrame("Del", 2, "k1"),
     KeyFrame("Get", 2, "k1")}

CancelNext ==
    \/ \E c \in CancelConns, f \in CancelFrames :
            wire[c].read < MaxFrames /\ HandleFrame(c, f, TRUE)
    \/ \E c \in CancelConns : SendUnblock(c)
    \/ \E c \in CancelConns : AwaitReply(c, TRUE)
    \/ \E c \in CancelConns : Cancel(c)
    \/ \E w \in CancelWorkers : WorkerRecv(w)
    \/ \E w \in CancelWorkers : WorkerExecute(w)

CancelSpec == Init /\ [][CancelNext]_vars

----------------------------------------------------------------------------
(* storage/concurrent_store.rs, thread by thread: a DashMap operation runs
   under the lock of the shard of its key; cleanup_expired takes the write
   lock of one shard after the other *)

Setters == {"t1", "t2"}

NoEntry == [key |-> "", entry |-> EntryNew("", None, 0)]

\* threads outside any operation, the cleaner not running
ThreadsNew(logging) ==
    [entry |-> [t \in Setters |-> NoEntry], logging |-> logging, log |-> <<>>,
     held |-> {}, shard |-> 0, removed |-> 0, before |-> 0, wrote |-> FALSE,
     returned |-> None, visited |-> FALSE, doomed |-> {}]

\* the history of completed operations, where one is kept
Logged(e) == IF thr.logging /\ e.op # "del" THEN Append(thr.log, e) ELSE thr.log

\* variant: the map operations do not wait for the shard lock
ShardFreeAlways(key) == TRUE

\* the shard of the key is not write-locked by the cleaner
ShardFree(key) == ShardOf(key) \notin thr.held

\* ConcurrentStore::set, first half: Entry::new reads the clock
SetEntry(t, key, value, ttl) ==
    /\ thr.entry[t] = NoEntry
    /\ thr' = [thr EXCEPT !.entry[t] = [key |-> key, entry |-> EntryNew(value, ttl, now)]]
    /\ UNCHANGED <<now, store, index, queue, worker, pc, cur, chan, wire, sweep,
                   total_ops, lastWrite, unswept, call, dec, pool, metrics>>

\* ConcurrentStore::set, second half: DashMap::insert under the shard lock
SetInsert(t) ==
    /\ thr.entry[t] # NoEntry
    /\ ShardFree(thr.entry[t].key)
    /\ store' = Insert(store, thr.entry[t].key, thr.entry[t].entry)
    /\ thr' = [thr EXCEPT !.entry[t] = NoEntry,
                          !.log = Logged([op |-> "set", key |-> thr.entry[t].key,
                                          value |-> thr.entry[t].entry.value]),
                          !.wrote = TRUE]
    /\ UNCHANGED <<now, index, queue, worker, pc, cur, chan, wire, sweep,
                   total_ops, lastWrite, unswept, call, dec, pool, metrics>>

\* ConcurrentStore::get: lookup, is_expired and clone under the shard lock
Get(key) ==
    /\ ShardFree(key)
    /\ thr' = [thr EXCEPT !.log = Logged([op |-> "get", key |-> key,
                                          value |-> StoreGet(store, key, now)])]
    /\ UNCHANGED <<now, store, index, queue, worker, pc, cur, chan, wire, sweep,
                   total_ops, lastWrite, unswept, call, dec, pool, metrics>>

\* ConcurrentStore::del: DashMap::remove under the shard lock
Del(key) ==
    /\ ShardFree(key)
    /\ key \in DOMAIN store
    /\ store' = StoreDel(store, key)
    /\ thr' = [thr EXCEPT !.wrote = TRUE]
    /\ UNCHANGED <<now, index, queue, worker, pc, cur, chan, wire, sweep,
                   total_ops, lastWrite, unswept, call, dec, pool, metrics>>

\* ConcurrentStore::cleanup_expired is entered: removed = 0
CleanStart ==
    /\ thr.shard = 0
    /\ thr' = [thr EXCEPT !.shard = 1, !.removed = 0, !.wrote = FALSE,
                          !.before = Cardinality(DOMAIN store), !.returned = None]
    /\ UNCHANGED <<now, store, index, queue, worker, pc, cur, chan, wire, sweep,
                   total_ops, lastWrite, unswept, call, dec, pool, metrics>>

\* DashMap::retain takes the write lock of the next shard
CleanLock ==
    /\ thr.shard # 0
    /\ thr.shard \notin thr.held
    /\ thr' = [thr EXCEPT !.held = @ \cup {thr.shard}]
    /\ UNCHANGED <<now, store, index, queue, worker, pc, cur, chan, wire, sweep,
                   total_ops, lastWrite, unswept, call, dec, pool, metrics>>

\* variant: the shard locks are kept until the last shard is done
ReleaseAtEnd(held, shard) == IF shard = NumShards THEN {} ELSE held

\* DashMap::retain drops the guard of a shard before it goes to the next one
Release(held, shard) == held \ {shard}

\* the closure of cleanup_expired on the entries of the locked shard, then
\* the lock is released; after the last shard cleanup_expired returns removed
CleanRetain ==
    /\ thr.shard \in thr.held
    /\ LET kept == RetainShard(store, thr.shard, now)
           n == thr.removed + Cardinality(DOMAIN store) - Cardinality(DOMAIN kept)
       IN  /\ store' = kept
           /\ thr' = [thr EXCEPT !.held = Release(thr.held, thr.shard),
                                 !.removed = n,
                                 !.shard = IF thr.shard = NumShards THEN 0 ELSE @ + 1,
                                 !.returned = IF thr.shard = NumShards THEN n ELSE None]
    /\ UNCHANGED <<now, index, queue, worker, pc, cur, chan, wire, sweep,
                   total_ops, lastWrite, unswept, call, dec, pool, metrics>>

\* retain, step by step: the closure of cleanup_expired is called on the
\* entries of the locked shard and tells which of them to erase
RetainVisit ==
    /\ thr.shard \in thr.held
    /\ ~thr.visited
    /\ thr' = [thr EXCEPT !.visited = TRUE,
                          !.doomed = {k \in DOMAIN store :
                                        ShardOf(k) = thr.shard /\ is_expired(store[k], now)},
                          !.removed = @ + Cardinality({k \in DOMAIN store :
                                        ShardOf(k) = thr.shard /\ is_expired(store[k], now)})]
    /\ UNCHANGED <<now, store, index, queue, worker, pc, cur, chan, wire, sweep,
                   total_ops, lastWrite, unswept, call, dec, pool, metrics>>

\* retain erases the entries the closure refused and the lock is released;
\* after the last shard cleanup_expired returns removed
RetainErase ==
    /\ thr.shard \in thr.held
    /\ thr.visited
    /\ store' = [x \in DOMAIN store \ thr.doomed |-> store[x]]
    /\ thr' = [thr EXCEPT !.held = Release(thr.held, thr.shard),
                          !.visited = FALSE,
                          !.doomed = {},
                          !.shard = IF thr.shard = NumShards THEN 0 ELSE @ + 1,
                          !.returned = IF thr.shard = NumShards THEN thr.removed ELSE None]
    /\ UNCHANGED <<now, index, queue, worker, pc, cur, chan, wire, sweep,
                   total_ops, lastWrite, unswept, call, dec, pool, metrics>>

\* one writer racing the cleaner, retain taken step by step
RaceNext ==
    \/ Tick
    \/ \E key \in Keys, ttl \in {None, 1} : SetEntry("t1", key, "v1", ttl)
    \/ SetInsert("t1")
    \/ \E key \in Keys : Del(key)
    \/ CleanStart
    \/ CleanLock
    \/ RetainVisit
    \/ RetainErase

\* several threads get and set one key; v_old is in the store, unexpired
AtomicInit ==
    /\ QuietInit
    /\ store = StoreSet(EmptyMap, "k1", "v1", 1, 0)
    /\ thr = ThreadsNew(TRUE)

AtomicNext ==
    \/ \E t \in Setters, value \in Values :
            Len(thr.log) < MaxOps /\ SetEntry(t, "k1", value, None)
    \/ \E t \in Setters : SetInsert(t)
    \/ Len(thr.log) < MaxOps /\ Get("k1")

AtomicSpec == AtomicInit /\ [][AtomicNext]_vars

\* one writer and the cleaner, the clock running
ShardInit ==
    /\ QuietInit
    /\ store = EmptyMap
    /\ thr = ThreadsNew(FALSE)

ShardNext ==
    \/ Tick
    \/ \E key \in Keys, ttl \in {None, 1} : SetEntry("t1", key, "v1", ttl)
    \/ SetInsert("t1")
    \/ \E key \in Keys : Del(key)
    \/ CleanStart
    \/ CleanLock
    \/ CleanRetain

ShardSpec == ShardInit /\ [][ShardNext]_vars

RaceSpec == ShardInit /\ [][RaceNext]_vars

----------------------------------------------------------------------------
(* One decoder fed a header of any content and the payload it declares *)

\* the 22 bytes of a header, field by field
RawHeader(magic, version, opcode, flags, payload_len, request_id, reserved) ==
    magic \o <<version, opcode>> \o put_uint(flags, 2) \o put_uint(payload_len, 4)
          \o put_uint(request_id, 8) \o put_uint(reserved, 2)

RawHeaders ==
    {RawHeader(magic, version, opcode, flags, payload_len, request_id, reserved) :
        magic \in {MAGIC, <<67, 69, 76, 89>>, <<0, 69, 76, 88>>},
        version \in {VERSION, 2},
        opcode \in {1, 33, 0, 22},
        flags \in {0, 258},
        payload_len \in {0, U32Max},
        request_id \in {1, 256},
        reserved \in {0, 513}}

\* the bytes a peer sends: the header and as many payload bytes as it declares
RawStream(header) == header \o [i \in 1..get_uint(SubSeq(header, 9, 12)) |-> 7]

HeaderInit ==
    /\ ServerInit
    /\ call = NoCall
    /\ dec \in {[frames |-> <<>>, raw |-> h, stream |-> RawStream(h), src |-> <<>>,
                 state |-> StateHeader, out |-> <<>>, last |-> "new", waited |-> {},
                 yieldedAfter |-> {}] : h \in RawHeaders}

HeaderNext ==
    \/ \E n \in {1, HEADER_SIZE - 1, HEADER_SIZE + U32Max} :
           Deliver(IF n < Len(dec.stream) THEN n ELSE Len(dec.stream))
    \/ Decode

HeaderSpec == HeaderInit /\ [][HeaderNext]_vars

----------------------------------------------------------------------------
(* Properties *)

\* worker w finishes the work item it holds in this step
Executes(w) == worker[w].state = "busy" /\ worker'[w].state # "busy"
ExecCmd(w) == worker[w].item.command
\* what the connection finds in its reply channel after the step
ExecReply(w) == chan'[worker[w].item.response_tx]

IsValue(reply, v) == reply.state = "sent" /\ reply.result.tag = "Value" /\ reply.result.data = v
IsNil(reply) == reply.state = "sent" /\ reply.result.tag = "Nil"
IsInteger(reply, i) == reply.state = "sent" /\ reply.result.tag = "Integer" /\ reply.result.data = i
IsOk(reply) == reply.state = "sent" /\ reply.result.tag = "Ok"

\* the entry stored under k has an expiration time that has passed
Lapsed(k) == k \in DOMAIN store /\ store[k].expires_at # None /\ now > store[k].expires_at

\* C1: a GET of a stored entry whose expiration time has passed is answered
\* NIL and an EXISTS of it INTEGER 0, swept or not
C1_LazyExpiration ==
    [][\A w \in KvWorkers :
         (Executes(w) /\ ExecCmd(w).op \in {"Get", "Exists"} /\ Lapsed(ExecCmd(w).key))
         => IF ExecCmd(w).op = "Get" THEN IsNil(ExecReply(w)) ELSE IsInteger(ExecReply(w), 0)]_vars

\* C1 witness: a GET was answered NIL while the lapsed entry is still stored
C1_Witness ==
    \E c \in Conns :
        /\ cur[c].opcode = "Get" /\ cur[c].payload.shape = "key"
        /\ IsNil(chan[c])
        /\ Lapsed(cur[c].payload.key)

\* C2: after SET(k, v, ttl = t), t > 0, and no later write to k, a GET(k) no
\* later than t seconds after the SET returns VALUE v and a later one NIL
C2_TtlCorrectness ==
    [][\A w \in KvWorkers :
         (/\ Executes(w)
          /\ ExecCmd(w).op = "Get"
          /\ lastWrite[ExecCmd(w).key].op = "Set"
          /\ lastWrite[ExecCmd(w).key].ttl # None)
         => LET set == lastWrite[ExecCmd(w).key]
            IN  IF now <= set.at + set.ttl
                THEN IsValue(ExecReply(w), set.value)
                ELSE IsNil(ExecReply(w))]_vars

C10_SetAlwaysSucceeds ==
    [][\A w \in KvWorkers :
         /\ (Executes(w) /\ ExecCmd(w).op = "Set")
            => /\ IsOk(ExecReply(w))
               /\ ExecCmd(w).key \in DOMAIN store'
               /\ store'[ExecCmd(w).key].value = ExecCmd(w).value
               /\ store'[ExecCmd(w).key].expires_at =
                      (IF ExecCmd(w).ttl = None THEN None ELSE now + ExecCmd(w).ttl)
         /\ (/\ Executes(w) /\ ExecCmd(w).op = "Get"
             /\ lastWrite[ExecCmd(w).key].op = "Set"
             /\ lastWrite[ExecCmd(w).key].ttl = None)
            => IsValue(ExecReply(w), lastWrite[ExecCmd(w).key].value)]_vars

----------------------------------------------------------------------------
(* The request path *)

IsVectorCommand(cmd) == cmd.op = "VAdd" \/ cmd.op = "VSearch"

\* the work items of connection c that sit in a queue or in a worker
QueuedFor(c) == {<<p, i>> \in Pools \X (1..QueueCapacity) :
                    i <= Len(queue[p]) /\ queue[p][i].response_tx = c}
HeldFor(c) == {w \in Workers : worker[w].state = "busy" /\ worker[w].item.response_tx = c}

\* C3: every decoded frame gets exactly one response frame unless the
\* connection terminates, and a worker sends exactly one result for every
\* work item it receives (it never lets go of a reply channel unanswered)
C3_ExactlyOneReply ==
    \A c \in Conns :
        /\ wire[c].written <= wire[c].read
        /\ pc[c] # "closed" => wire[c].read - wire[c].written = (IF pc[c] = "read" THEN 0 ELSE 1)
        /\ chan[c].state # "dropped"

\* C4: on a connection the reply to request N is written before request N+1
\* is read, parsed or enqueued: at most one request is unanswered, the task is
\* ready to read only when none is, and at most one work item of the
\* connection exists, in whichever pool
C4_PerConnectionOrdering ==
    \A c \in Conns :
        /\ wire[c].read - wire[c].written \in {0, 1}
        /\ pc[c] = "read" => wire[c].written = wire[c].read
        /\ Cardinality(QueuedFor(c)) + Cardinality(HeldFor(c)) <= 1
        /\ (QueuedFor(c) # {} \/ HeldFor(c) # {})
           => pc[c] = "await" /\ wire[c].written = wire[c].read - 1

\* C4 witness: the first reply, from the KV pool, is on the wire and the
\* second request of the connection waits in the Vector queue
C4_Witness ==
    /\ wire["c1"].read = 2 /\ wire["c1"].written = 1
    /\ wire["c1"].last.opcode = "Pong"
    /\ \E i \in 1..Len(queue["Vector"]) : queue["Vector"][i].response_tx = "c1"

\* C5: a response frame carries the request id of the frame it answers, and
\* so does the work item on its way through the pool
C5_RequestIdEcho ==
    \A c \in Conns :
        /\ (wire[c].read > 0 /\ wire[c].written = wire[c].read)
           => wire[c].last.request_id = cur[c].request_id
        /\ \A q \in QueuedFor(c) : queue[q[1]][q[2]].request_id = cur[c].request_id
        /\ \A w \in HeldFor(c) : worker[w].item.request_id = cur[c].request_id

\* C5 witness: the second request of a connection, with another id than the
\* first, was answered with an ERROR frame after the worker died
C5_Witness ==
    \E c \in Conns :
        /\ wire[c].read = 2 /\ wire[c].written = 2
        /\ wire[c].last.opcode = "Error"
        /\ wire[c].last.payload.data = <<"Worker error">>
        /\ wire[c].last.request_id = 2

\* C6: a request that finds its target queue full is answered at once with
\* an ERROR frame saying the queue is full; the task never waits for room
C6_Backpressure ==
    [][\A c \in Conns :
         (/\ wire'[c].read = wire[c].read + 1
          /\ from_frame(cur'[c]).tag = "Ok"
          /\ Len(queue[TargetQueue(from_frame(cur'[c]).cmd)]) >= QueueCapacity)
         => /\ pc'[c] # "send_blocked"
            /\ pc'[c] = "read"
               => /\ wire'[c].written = wire[c].written + 1
                  /\ wire'[c].last.opcode = "Error"
                  /\ wire'[c].last.payload.data = <<"Queue full">>]_vars

\* the Vector queue is full and every vector worker is busy
VectorFlood ==
    /\ Len(queue["Vector"]) = QueueCapacity
    /\ \A w \in VecWorkers : worker[w].state = "busy"

\* C7: under a vector flood a KV command of another connection can still be
\* taken from the socket and enqueued, and a KV result can be written back
C7_WorkloadIsolation ==
    VectorFlood =>
        \A c \in Conns :
            /\ pc[c] = "read" => ENABLED HandleFrame(c, Ping(1), TRUE)
            /\ (pc[c] = "await" /\ chan[c].state = "sent" /\ cur[c].opcode = "Ping")
               => ENABLED AwaitReply(c, TRUE)

\* C8: the Vector queue and the vector workers hold VADD / VSEARCH only, the
\* KV queue and the KV workers every other command only
C8_DispatcherRule ==
    /\ \A p \in Pools : \A i \in 1..Len(queue[p]) :
           IsVectorCommand(queue[p][i].command) <=> p = "Vector"
    /\ \A w \in Workers :
           worker[w].state = "busy"
           => (IsVectorCommand(worker[w].item.command) <=> w \in VecWorkers)

\* C8 witness: a vector worker runs a VSEARCH while a KV worker runs a PING
C8_Witness ==
    /\ \E w \in VecWorkers : worker[w].state = "busy" /\ worker[w].item.command.op = "VSearch"
    /\ \E w \in KvWorkers : worker[w].state = "busy" /\ worker[w].item.command.op = "Ping"

----------------------------------------------------------------------------
(* The sweeper and the replies *)

\* what the worker would have answered on the store that was never swept
UnsweptReply(w) ==
    LET out == execute_command(unswept, EmptyMap, ExecCmd(w), now, <<>>, FALSE)
    IN  IF out.panic THEN ChanDropped ELSE ChanSent(out.result)

\* C11: every reply to GET / SET / DEL / EXISTS is the reply the same command
\* sequence gets at the same times when cleanup_expired never runs
C11_SweeperTransparent ==
    [][\A w \in KvWorkers :
         (Executes(w) /\ ExecCmd(w).op \in {"Get", "Set", "Del", "Exists"})
         => ExecReply(w) = UnsweptReply(w)]_vars

----------------------------------------------------------------------------
(* The embedding index behind VADD and VSEARCH *)

IsError(reply) == reply.state = "sent" /\ reply.result.tag = "Error"

\* C12: a VADD whose vector length differs from the index dimension is
\* answered with an error and leaves the index as it was, key set and entries
C12_VAddDimensionSafety ==
    [][\A w \in VecWorkers :
         (Executes(w) /\ ExecCmd(w).op = "VAdd" /\ Len(ExecCmd(w).vector) # Dimension)
         => IsError(ExecReply(w)) /\ index' = index]_vars

\* C12 witness: a VADD of a wrong-length vector under a key that holds an
\* entry was answered with an error
C12_Witness ==
    \E c \in Conns :
        /\ cur[c].opcode = "VAdd"
        /\ Len(cur[c].payload.vector) # Dimension
        /\ IsError(chan[c])
        /\ cur[c].payload.key \in DOMAIN index

\* C13: a VSEARCH whose query length differs from the index dimension is
\* answered with an error, leaves the index as it was and leaves its worker
\* running
C13_VSearchDimensionSafety ==
    [][\A w \in VecWorkers :
         (Executes(w) /\ ExecCmd(w).op = "VSearch" /\ Len(ExecCmd(w).vector) # Dimension)
         => /\ IsError(ExecReply(w))
            /\ index' = index
            /\ worker'[w].state # "dead"]_vars

\* similarity of the stored entry to the query of the last call
SimOf(key) == cosine_similarity(call.query, index[key].embedding)

\* x <= y for similarities with non-negative dot products
SimLeq(x, y) ==
    IF x.den = 0 THEN TRUE
    ELSE IF y.den = 0 THEN x.dot = 0
    ELSE x.dot * x.dot * y.den <= y.dot * y.dot * x.den

\* sim >= similarity_threshold, for the positive threshold of the configuration
AboveThreshold(sim) ==
    /\ sim.den > 0
    /\ sim.dot > 0
    /\ ThresholdDen * ThresholdDen * sim.dot * sim.dot >= ThresholdNum * ThresholdNum * sim.den

Hit(key) == key \in DOMAIN index /\ AboveThreshold(SimOf(key))

\* the keys make a result: distinct stored keys at or above the threshold,
\* in order of non-increasing similarity, complete up to a cut at limit
OrderedResult(keys, limit) ==
    /\ Len(keys) <= limit
    /\ \A i \in 1..Len(keys) : Hit(keys[i])
    /\ \A i, j \in 1..Len(keys) : i < j => keys[i] # keys[j] /\ SimLeq(SimOf(keys[j]), SimOf(keys[i]))
    /\ \A key \in DOMAIN index :
           (Hit(key) /\ \A i \in 1..Len(keys) : keys[i] # key)
           => /\ Len(keys) = limit
              /\ \A i \in 1..Len(keys) : SimLeq(SimOf(key), SimOf(keys[i]))

\* C14: find_nearest and semantic_get return keys sorted by non-increasing
\* similarity, each at or above the threshold and reported with its
\* similarity, and omit a stored entry at or above the threshold only when
\* the result was cut at the limit, and then only one no nearer than any
\* returned entry
C14_VSearchOrdering ==
    call.fn = "find_nearest"
    => /\ OrderedResult([i \in 1..Len(call.result) |-> call.result[i].key], call.k)
       /\ \A i \in 1..Len(call.result) : call.result[i].sim = SimOf(call.result[i].key)
       /\ OrderedResult(call.keys, max_results)

\* C14 witness: three entries at or above the threshold, two of them nearer
\* than the third, cut to the nearest two
C14_Witness ==
    /\ call.fn = "find_nearest"
    /\ call.k = 2
    /\ Len(call.result) = 2
    /\ \E key \in DOMAIN index :
           /\ Hit(key)
           /\ \A i \in 1..2 : call.result[i].key # key
                              /\ ~SimLeq(SimOf(call.result[i].key), SimOf(key))

\* position of a key in the order of insertion
InsertedAt(key) == CHOOSE i \in 1..Len(call.inserted) : call.inserted[i] = key

Tied(x, y) == SimLeq(x, y) /\ SimLeq(y, x)

\* C15: entries with equal similarity appear in insertion order, and a cut
\* through a group of ties keeps the entries inserted first
C15_TieBreaking ==
    call.fn = "find_nearest"
    => /\ \A i, j \in 1..Len(call.result) :
              (i < j /\ Tied(call.result[i].sim, call.result[j].sim))
              => InsertedAt(call.result[i].key) < InsertedAt(call.result[j].key)
       /\ \A key \in DOMAIN index : \A i \in 1..Len(call.result) :
              (/\ Hit(key)
               /\ \A j \in 1..Len(call.result) : call.result[j].key # key
               /\ Tied(SimOf(key), call.result[i].sim))
              => InsertedAt(call.result[i].key) < InsertedAt(key)

----------------------------------------------------------------------------
(* Frames that decode and do not parse *)

\* connection c takes a frame from its socket in this step
Reads(c) == wire'[c].read = wire[c].read + 1

\* the step answers the frame just read with an ERROR frame of its request
\* id and leaves the task ready for the next frame
AnsweredWithError(c) ==
    /\ wire'[c].written = wire[c].written + 1
    /\ wire'[c].last.opcode = "Error"
    /\ wire'[c].last.request_id = cur'[c].request_id
    /\ pc'[c] = "read"

\* C16: a decoded frame whose payload does not parse as a command is
\* answered with an ERROR frame of the same request id and the connection
\* task goes on to the next frame
C16_ParseErrorsSurvivable ==
    [][\A c \in Conns :
         (Reads(c) /\ from_frame(cur'[c]).tag # "Ok") => AnsweredWithError(c)]_vars

\* C17: a frame of the extended family gets one ERROR frame of the same
\* request id, no work item, no change of store or index, and the connection
\* stays open
C17_ExtendedFamilyAnswered ==
    [][\A c \in Conns :
         (Reads(c) /\ cur'[c].opcode \in ExtendedOpcodes)
         => /\ AnsweredWithError(c)
            /\ UNCHANGED <<store, index, queue, chan,
                   pool, metrics, thr>>]_vars

\* C17 witness: the second frame of a connection, of the extended family and
\* following another one, was answered with ERROR under its own request id
C17_Witness ==
    \E c \in Conns :
        /\ cur[c].opcode \in ExtendedOpcodes
        /\ cur[c].request_id = 2
        /\ wire[c].read = 2 /\ wire[c].written = 2
        /\ wire[c].last.opcode = "Error" /\ wire[c].last.request_id = 2
        /\ wire[c].last.payload.data = <<"Unexpected opcode for command: ", cur[c].opcode>>
        /\ pc[c] = "read"

----------------------------------------------------------------------------
(* Framing *)

RoundTrips == {"command_round_trip", "response_round_trip", "frame_round_trip"}

\* C18: a command parsed from the frame built from its encoding is the
\* command, a response read from its frame is the response, and a frame
\* encoded and decoded by the codec keeps opcode, request id and payload
C18_FramingRoundTrip ==
    /\ call.fn \in {"command_round_trip", "response_round_trip"}
       => call.output = ParseOk(call.input)
    /\ call.fn \in RoundTrips
       => /\ call.decoded.tag = "Some"
          /\ call.decoded.frame.header.opcode = call.frame.header.opcode
          /\ call.decoded.frame.header.request_id = call.frame.header.request_id
          /\ call.decoded.frame.payload = call.frame.payload

\* C19: an encoded frame is 22 header bytes and then the payload, starts
\* with 43 45 4C 58 01, and declares the number of payload bytes that
\* follow; a decoded frame has a payload of the declared length
C19_HeaderFields ==
    call.fn \in RoundTrips
    => /\ Len(call.bytes) = 22 + Len(call.frame.payload)
       /\ SubSeq(call.bytes, 1, 5) = <<67, 69, 76, 88, 1>>
       /\ Drop(call.bytes, 22) = call.frame.payload
       /\ get_uint(SubSeq(call.bytes, 9, 12)) = Len(call.bytes) - 22
       /\ call.decoded.tag = "Some"
          => Len(call.decoded.frame.payload) = call.decoded.frame.header.payload_len

\* the header bytes the codec has consumed and keeps in its state
HeldHeader(state) ==
    IF state.state = "Payload" THEN FrameHeader_encode(state.header) ELSE <<>>

\* C20: a decoder fed the bytes of a sequence of frames in arbitrary pieces
\* yields those frames in order: what it has yielded is a prefix of the
\* frames, the bytes not yet yielded are all kept (in its state, its buffer
\* or still to come), it returns nothing only while a header or a payload is
\* incomplete, and once everything has arrived and it returns nothing it has
\* yielded every frame
C20_ChunkingIndependent ==
    "frames" \in DOMAIN dec
    => /\ dec.last # "Err"
       /\ Len(dec.out) <= Len(dec.frames)
       /\ dec.out = SubSeq(dec.frames, 1, Len(dec.out))
       /\ Encoded(dec.out) \o HeldHeader(dec.state) \o dec.src \o dec.stream
          = Encoded(dec.frames)
       /\ dec.last = "None"
          => IF dec.state.state = "Header" THEN Len(dec.src) < HEADER_SIZE
             ELSE Len(dec.src) < dec.state.header.payload_len
       /\ (dec.stream = <<>> /\ dec.last = "None") => dec.out = dec.frames

\* C20 witness: the first of two frames is yielded after the decoder
\* returned nothing on a partial header and on a partial payload, with bytes
\* of the second frame already in the buffer and left there
C20_Witness ==
    /\ "frames" \in DOMAIN dec
    /\ Len(dec.frames) = 2
    /\ dec.last = "Some"
    /\ dec.yieldedAfter = {"Header", "Payload"}
    /\ dec.out = <<dec.frames[1]>>
    /\ dec.src # <<>>
    /\ dec.src \o dec.stream = Encoded(<<dec.frames[2]>>)

----------------------------------------------------------------------------
(* Headers the decoder refuses *)

\* this step is a call of decode that has a whole header to look at
DecodesHeader ==
    /\ dec.state.state = "Header"
    /\ Len(dec.src) >= 22
    /\ dec'.last \in {"None", "Some", "Err"}

\* C21: a header that declares the largest payload length the field can
\* carry, above any maximum a configuration could set below the field's
\* range, makes decode fail; the decoder neither waits for the payload nor
\* buffers it
C21_PayloadMaximum ==
    [][(DecodesHeader
        /\ SubSeq(dec.src, 1, 4) = <<67, 69, 76, 88>>
        /\ dec.src[6] \in {1, 33}
        /\ get_uint(SubSeq(dec.src, 9, 12)) = U32Max)
       => dec'.last = "Err"]_vars

\* C22: decode fails, and yields no frame, exactly when the magic bytes
\* are not 43 45 4C 58 or the opcode byte is not a defined opcode; version,
\* flags, reserved, request id and payload length never make it fail
C22_BadMagicOrOpcode ==
    [][DecodesHeader
       => /\ dec'.last = "Err"
             <=> \/ SubSeq(dec.src, 1, 4) # <<67, 69, 76, 88>>
                 \/ dec.src[6] \notin (1..21) \cup {32, 33}
          /\ dec'.last = "Err" => dec'.out = dec.out]_vars

\* C22 witness: a header with the right magic, another version, non-zero
\* flags and reserved bytes and an undefined opcode byte was refused and no
\* frame came out of it
C22_Witness ==
    /\ "raw" \in DOMAIN dec
    /\ dec.raw = <<67, 69, 76, 88, 2, 22, 1, 2>> \o put_uint(U32Max, 4)
                 \o put_uint(256, 8) \o <<2, 1>>
    /\ dec.last = "Err"
    /\ dec.out = <<>>
    /\ dec.stream = <<>>
    /\ Len(dec.src) = U32Max

----------------------------------------------------------------------------
(* The end of the workers *)

\* C23: once every connection task has dropped its queue handle, the
\* workers drain the queue and leave their loop, so a WorkerPool::join that
\* is under way returns
C23_WorkerShutdown ==
    ((\A c \in Conns : pc[c] = "closed") /\ pool["KV"].join = "joining")
    ~> pool["KV"].join = "returned"

----------------------------------------------------------------------------
(* Cancellation *)

\* the store a KV command leaves behind when its execution returns
StoreAfter(cmd) ==
    IF cmd.op = "Set" THEN StoreSet(store, cmd.key, cmd.value, cmd.ttl, now)
    ELSE IF cmd.op = "Del" THEN [k \in DOMAIN store \ {cmd.key} |-> store[k]]
    ELSE store

\* execute_command panics on the command the worker holds
ExecPanics(w) == ExecCmd(w).op = "Set" /\ ExecCmd(w).ttl # None /\ now + ExecCmd(w).ttl > InstantSecsMax

----------------------------------------------------------------------------
(* Worker panics *)

\* the worker threads of pool p that are running
LiveWorkers(p) == {w \in Workers : PoolOf(w) = p /\ worker[w].state # "dead"}

\* C25: a panic in execute_command ends only the thread of that worker:
\* the other workers are untouched, the connection of the request finds its
\* reply channel closed by the worker (and answers ERROR "Worker error"),
\* and the pool either has a replacement running or reports the reduced
\* number of workers
C25_PanicIsolation ==
    [][\A w \in Workers :
         (Executes(w) /\ worker'[w].state = "dead")
         => /\ \A v \in Workers \ {w} : worker'[v] = worker[v]
            /\ chan'[worker[w].item.response_tx].state = "dropped"
            /\ pc'[worker[w].item.response_tx] = "await"
            /\ \/ Cardinality(LiveWorkers(PoolOf(w))') = Len(Handles(PoolOf(w)))
               \/ num_workers(PoolOf(w)) = Cardinality(LiveWorkers(PoolOf(w))')]_vars

----------------------------------------------------------------------------
(* The store under concurrent threads *)

\* the value the i-th operation of the history found in force: that of the
\* latest set completed before it, v_old when there is none
RECURSIVE InForce(_)
InForce(i) ==
    IF i = 1 THEN "v1"
    ELSE IF thr.log[i - 1].op = "set" THEN thr.log[i - 1].value
    ELSE InForce(i - 1)

\* C26: every get of the key returns a value, never absent; it is v_old or
\* the value of a set, namely the one of the latest set completed before the
\* get, so that no get returns v_old after another returned v_new unless
\* v_old was set again
C26_AtomicVisibility ==
    thr.logging
    => \A i \in 1..Len(thr.log) :
         thr.log[i].op = "get"
         => /\ thr.log[i].value.some
            /\ thr.log[i].value.value \in {"v1", "v2"}
            /\ thr.log[i].value.value = InForce(i)

\* C26 witness: a get returned v_old while the set of v_new had built its
\* entry and not inserted it, and the get after the insert returned v_new
C26_Witness ==
    /\ thr.logging
    /\ Len(thr.log) = 3
    /\ <<thr.log[1].op, thr.log[2].op, thr.log[3].op>> = <<"get", "set", "get">>
    /\ thr.log[1].value = SomeBytes("v1")
    /\ thr.log[2].value = "v2"
    /\ thr.log[3].value = SomeBytes("v2")
    /\ thr.entry["t2"] # NoEntry

----------------------------------------------------------------------------
(* server/command_queue.rs, thread by thread *)

Producers == {"c1", "c2"}
Consumers == {"kv1", "kv2"}

\* the j-th work item of a producer
ItemOf(p, j) ==
    WorkItem(from_frame(KeyFrame("Get", j, "k1")).cmd,
             (IF p = "c1" THEN 0 ELSE MaxItems) + j, p)

\* CommandQueue::new and the threads that hold clones of it
CommandQueueNew(capacity) ==
    [capacity |-> capacity,
     next |-> [p \in Producers |-> 1],
     sent |-> [p \in Producers |-> <<>>],
     refused |-> {},
     got |-> <<>>,
     last |-> [c \in Consumers |-> "none"]]

\* CommandQueue::is_full
is_full(q) == Len(q) >= thr.capacity

\* variant: the receiver takes the item sent last
DequeueLast(q) == [item |-> q[Len(q)], rest |-> SubSeq(q, 1, Len(q) - 1)]

\* crossbeam Receiver::recv / try_recv on a queue that holds an item
Dequeue(q) == [item |-> Head(q), rest |-> Tail(q)]

QueueFrame ==
    UNCHANGED <<now, store, index, worker, pc, cur, chan, wire, sweep, total_ops,
                lastWrite, unswept, call, dec, pool, metrics>>

\* the item went into the channel: the call returns Ok(())
Enqueued(p) ==
    /\ queue' = [queue EXCEPT !["KV"] = Append(@, ItemOf(p, thr.next[p]))]
    /\ thr' = [thr EXCEPT !.next[p] = @ + 1,
                          !.sent[p] = Append(@, ItemOf(p, thr.next[p]).request_id)]

\* the item comes back in the error: Full or Timeout
Refused(p) ==
    /\ thr' = [thr EXCEPT !.next[p] = @ + 1,
                          !.refused = @ \cup {ItemOf(p, thr.next[p]).request_id}]
    /\ UNCHANGED queue

\* CommandQueue::send blocks while the queue is full
QueueSend(p) ==
    /\ thr.next[p] <= MaxItems
    /\ ~is_full(queue["KV"])
    /\ Enqueued(p)
    /\ QueueFrame

\* CommandQueue::try_send
QueueTrySend(p) ==
    /\ thr.next[p] <= MaxItems
    /\ IF is_full(queue["KV"]) THEN Refused(p) ELSE Enqueued(p)
    /\ QueueFrame

\* CommandQueue::send_timeout: the timeout runs out only on a full queue
QueueSendTimeout(p) ==
    /\ thr.next[p] <= MaxItems
    /\ \/ ~is_full(queue["KV"]) /\ Enqueued(p)
       \/ is_full(queue["KV"]) /\ Refused(p)
    /\ QueueFrame

\* CommandQueue::recv blocks while the queue is empty
QueueRecv(c) ==
    /\ queue["KV"] # <<>>
    /\ LET d == Dequeue(queue["KV"])
       IN  /\ queue' = [queue EXCEPT !["KV"] = d.rest]
           /\ thr' = [thr EXCEPT !.got = Append(@, [by |-> c, item |-> d.item]),
                                 !.last[c] = "Ok"]
    /\ QueueFrame

\* CommandQueue::try_recv
QueueTryRecv(c) ==
    /\ IF queue["KV"] = <<>>
       THEN /\ thr' = [thr EXCEPT !.last[c] = "Empty"]
            /\ UNCHANGED queue
       ELSE LET d == Dequeue(queue["KV"])
            IN  /\ queue' = [queue EXCEPT !["KV"] = d.rest]
                /\ thr' = [thr EXCEPT !.got = Append(@, [by |-> c, item |-> d.item]),
                                      !.last[c] = "Ok"]
    /\ QueueFrame

\* several producers and several consumers on one queue
QueueInit ==
    /\ QuietInit
    /\ store = EmptyMap
    /\ \E capacity \in 1..MaxCapacity : thr = CommandQueueNew(capacity)

QueueNext ==
    \/ \E p \in Producers : QueueSend(p)
    \/ \E p \in Producers : QueueTrySend(p)
    \/ \E p \in Producers : QueueSendTimeout(p)
    \/ \E c \in Consumers : QueueRecv(c)
    \/ \E c \in Consumers : QueueTryRecv(c)

QueueSpec == QueueInit /\ [][QueueNext]_vars

----------------------------------------------------------------------------
(* metrics.rs, thread by thread *)

Commands == {"GET", "SET"}

\* the values of start.elapsed() in microseconds
Latencies == {0, 1, 3}

\* Duration::as_micros() as u64
AsU64(n) == n % (U64Max + 1)

\* a worker thread outside record_operation
Recorder ==
    [at |-> "idle", command |-> "", latency_us |-> 0, current_min |-> 0,
     current_max |-> 0, done |-> <<>>]

\* variant: the store happens whatever the cell holds
compare_exchange_blind(cell, current, new) ==
    {[ok |-> TRUE, cell |-> new, seen |-> cell]}

\* AtomicU64::compare_exchange_weak: it may fail though the cell holds the
\* expected value; a failure hands back the value the cell holds
compare_exchange_weak(cell, current, new) ==
    {[ok |-> FALSE, cell |-> cell, seen |-> cell]}
    \cup (IF cell = current THEN {[ok |-> TRUE, cell |-> new, seen |-> cell]} ELSE {})

\* Metrics::min_latency_us
min_latency_us(m) == IF m.latency_min_us = U64Max THEN 0 ELSE m.latency_min_us

\* Metrics::max_latency_us
max_latency_us(m) == m.latency_max_us

MetricsFrame ==
    UNCHANGED <<now, store, index, queue, worker, pc, cur, chan, wire, sweep,
                total_ops, lastWrite, unswept, call, dec, pool>>

\* record_operation is entered: total_ops.fetch_add(1)
RecordTotal(t, command, latency) ==
    /\ thr[t].at = "idle"
    /\ metrics.total_ops < MaxRecords
    /\ metrics' = [metrics EXCEPT !.total_ops = AsU64(@ + 1)]
    /\ thr' = [thr EXCEPT ![t] = [@ EXCEPT !.at = "command", !.command = command,
                                           !.latency_us = AsU64(latency)]]
    /\ MetricsFrame

\* the per-command counter, under the write lock of ops_by_command
RecordCommand(t) ==
    /\ thr[t].at = "command"
    /\ LET ops == metrics.ops_by_command
           c == thr[t].command
           n == IF c \in DOMAIN ops THEN ops[c] ELSE 0
       IN  metrics' = [metrics EXCEPT !.ops_by_command = Insert(ops, c, AsU64(n + 1))]
    /\ thr' = [thr EXCEPT ![t].at = "sum"]
    /\ MetricsFrame

\* latency_sum_us.fetch_add(latency_us)
RecordSum(t) ==
    /\ thr[t].at = "sum"
    /\ metrics' = [metrics EXCEPT !.latency_sum_us = AsU64(@ + thr[t].latency_us)]
    /\ thr' = [thr EXCEPT ![t].at = "count"]
    /\ MetricsFrame

\* latency_count.fetch_add(1)
RecordCount(t) ==
    /\ thr[t].at = "count"
    /\ metrics' = [metrics EXCEPT !.latency_count = AsU64(@ + 1)]
    /\ thr' = [thr EXCEPT ![t].at = "load_min"]
    /\ MetricsFrame

\* current_min = latency_min_us.load()
LoadMin(t) ==
    /\ thr[t].at = "load_min"
    /\ thr' = [thr EXCEPT ![t] = [@ EXCEPT !.at = "min", !.current_min = metrics.latency_min_us]]
    /\ UNCHANGED metrics
    /\ MetricsFrame

\* one turn of while latency_us < current_min
UpdateMin(t) ==
    /\ thr[t].at = "min"
    /\ IF thr[t].latency_us < thr[t].current_min
       THEN \E r \in compare_exchange_weak(metrics.latency_min_us, thr[t].current_min,
                                           thr[t].latency_us) :
               /\ metrics' = [metrics EXCEPT !.latency_min_us = r.cell]
               /\ thr' = [thr EXCEPT ![t] = IF r.ok THEN [@ EXCEPT !.at = "load_max"]
                                                ELSE [@ EXCEPT !.current_min = r.seen]]
       ELSE /\ thr' = [thr EXCEPT ![t].at = "load_max"]
            /\ UNCHANGED metrics
    /\ MetricsFrame

\* current_max = latency_max_us.load()
LoadMax(t) ==
    /\ thr[t].at = "load_max"
    /\ thr' = [thr EXCEPT ![t] = [@ EXCEPT !.at = "max", !.current_max = metrics.latency_max_us]]
    /\ UNCHANGED metrics
    /\ MetricsFrame

\* one turn of while latency_us > current_max; record_operation returns when
\* the loop is left
UpdateMax(t) ==
    /\ thr[t].at = "max"
    /\ LET returned == [thr[t] EXCEPT !.at = "idle",
                                       !.done = Append(@, [command |-> thr[t].command,
                                                           latency_us |-> thr[t].latency_us])]
       IN  IF thr[t].latency_us > thr[t].current_max
           THEN \E r \in compare_exchange_weak(metrics.latency_max_us, thr[t].current_max,
                                               thr[t].latency_us) :
                   /\ metrics' = [metrics EXCEPT !.latency_max_us = r.cell]
                   /\ thr' = [thr EXCEPT ![t] = IF r.ok THEN returned
                                                    ELSE [@ EXCEPT !.current_max = r.seen]]
           ELSE /\ thr' = [thr EXCEPT ![t] = returned]
                /\ UNCHANGED metrics
    /\ MetricsFrame

\* the worker threads of one pool record into one Metrics
MetricsInit ==
    /\ QuietInit
    /\ store = EmptyMap
    /\ thr = [t \in KvWorkers |-> Recorder]

MetricsNext ==
    \E t \in KvWorkers :
        \/ \E command \in Commands, latency \in Latencies : RecordTotal(t, command, latency)
        \/ RecordCommand(t)
        \/ RecordSum(t)
        \/ RecordCount(t)
        \/ LoadMin(t)
        \/ UpdateMin(t)
        \/ LoadMax(t)
        \/ UpdateMax(t)

MetricsSpec == MetricsInit /\ [][MetricsNext]_vars

\* the step in which the cleaner visits the entries of the shard it locked
VisitsShard == thr.shard \in thr.held /\ thr'.shard # thr.shard

\* the entries of the locked shard whose expiry instant has passed
ExpiredInShard ==
    {k \in DOMAIN store : /\ ShardOf(k) = thr.shard
                          /\ store[k].expires_at # None
                          /\ now > store[k].expires_at}

\* C27: cleanup_expired removes every entry that is expired when it is
\* visited and no other entry, counts each removal once and returns the count;
\* when no thread wrote during the call the size of the store went down by the
\* number returned
C27_CleanupExpired ==
    [][VisitsShard
       => /\ DOMAIN store' = DOMAIN store \ ExpiredInShard
          /\ \A k \in DOMAIN store' : store'[k] = store[k]
          /\ thr'.removed = thr.removed + Cardinality(ExpiredInShard)
          /\ thr'.shard = 0
             => /\ thr'.returned = thr'.removed
                /\ ~thr.wrote
                   => Cardinality(DOMAIN store') = thr.before - thr'.returned]_vars

\* C27 witness: cleanup_expired returned 1 with no concurrent writer, having
\* dropped the expired entry of one shard and kept the unexpired one of the
\* other
C27_Witness ==
    /\ ~thr.logging
    /\ thr.returned = 1
    /\ ~thr.wrote
    /\ thr.before = 2
    /\ DOMAIN store = {"k2"}
    /\ store["k2"].expires_at # None
    /\ now <= store["k2"].expires_at

\* C28: the cleaner holds the write lock of at most one shard, and while it
\* holds one, get, set and del on the keys of every other shard are not blocked
C28_OneShardLock ==
    ~thr.logging
    => /\ Cardinality(thr.held) <= 1
       /\ \A key \in Keys :
            (thr.held # {} /\ ShardOf(key) \notin thr.held)
            => /\ ENABLED Get(key)
               /\ thr.entry["t1"] = NoEntry => ENABLED SetEntry("t1", key, "v1", None)
               /\ thr.entry["t1"].key = key => ENABLED SetInsert("t1")
               /\ key \in DOMAIN store => ENABLED Del(key)

\* C28 witness: the cleaner has swept the first shard, removing an entry,
\* and holds the lock of the second while a set of a key of the first shard
\* is about to insert
C28_Witness ==
    /\ ~thr.logging
    /\ thr.held = {2}
    /\ thr.removed = 1
    /\ thr.entry["t1"].key = "k1"
    /\ "k2" \in DOMAIN store

----------------------------------------------------------------------------
(* Metrics under concurrent threads *)

\* the record_operation calls that have returned
Calls == thr["kv1"].done \o thr["kv2"].done

CallLatencies == {Calls[i].latency_us : i \in 1..Len(Calls)}

RECURSIVE SumOps(_, _)
SumOps(ops, commands) ==
    IF commands = {} THEN 0
    ELSE LET c == CHOOSE x \in commands : TRUE
         IN  ops[c] + SumOps(ops, commands \ {c})

\* no thread is inside record_operation
Quiescent == \A t \in KvWorkers : thr[t].at = "idle"

\* C29: when every record_operation call has returned, total_ops is the
\* number of calls and the sum of the per-command counts, each command is
\* counted as often as it was recorded, min_latency_us is the smallest and
\* max_latency_us the largest latency recorded, and min_latency_us is 0 when
\* nothing was recorded; no step raises the minimum or lowers the maximum
C29_MetricsLoseNoUpdate ==
    /\ [](Quiescent
          => /\ metrics.total_ops = Len(Calls)
             /\ SumOps(metrics.ops_by_command, DOMAIN metrics.ops_by_command)
                    = metrics.total_ops
             /\ \A c \in Commands :
                    Cardinality({i \in 1..Len(Calls) : Calls[i].command = c})
                        = IF c \in DOMAIN metrics.ops_by_command
                          THEN metrics.ops_by_command[c] ELSE 0
             /\ metrics.latency_count = Len(Calls)
             /\ IF Calls = <<>>
                THEN min_latency_us(metrics) = 0 /\ max_latency_us(metrics) = 0
                ELSE /\ min_latency_us(metrics) \in CallLatencies
                     /\ max_latency_us(metrics) \in CallLatencies
                     /\ \A l \in CallLatencies :
                            min_latency_us(metrics) <= l /\ l <= max_latency_us(metrics))
    /\ [][/\ metrics'.latency_min_us <= metrics.latency_min_us
          /\ metrics'.latency_max_us >= metrics.latency_max_us]_vars

\* C29 witness: two calls overlapped and have returned: the one with the
\* larger latency found the minimum of the other in the cell, and the other
\* found the maximum of the first
C29_Witness ==
    /\ Quiescent
    /\ thr["kv1"].done = <<[command |-> "GET", latency_us |-> 3]>>
    /\ thr["kv2"].done = <<[command |-> "SET", latency_us |-> 1]>>
    /\ thr["kv1"].current_min = 1
    /\ thr["kv2"].current_max = 3
    /\ metrics.latency_min_us = 1
    /\ metrics.latency_max_us = 3

----------------------------------------------------------------------------
(* The command queue under concurrent threads *)

\* the request ids of the items of one producer, in the order of the sequence
RECURSIVE Of(_, _)
Of(items, p) ==
    IF items = <<>> THEN <<>>
    ELSE (IF Head(items).response_tx = p THEN <<Head(items).request_id>> ELSE <<>>)
         \o Of(Tail(items), p)

\* the items in the order they were received, then those still queued
Delivered == [i \in 1..Len(thr.got) |-> thr.got[i].item] \o queue["KV"]

\* C30: the queue never holds more items than its capacity; the items of
\* each producer that were sent are, in the order of sending and each exactly
\* once, the ones received by the consumers followed by the ones still
\* queued; an item refused by the queue is never received
C30_QueueDelivery ==
    /\ Len(queue["KV"]) <= thr.capacity
    /\ \A p \in Producers : Of(Delivered, p) = thr.sent[p]
    /\ \A i \in 1..Len(Delivered) : Delivered[i].request_id \notin thr.refused

\* C30 witness: on a queue of capacity 2 an item was refused while the queue
\* was full, and three items of the two producers were taken, some by each of
\* the two consumers
C30_Witness ==
    /\ thr.capacity = 2
    /\ thr.refused # {}
    /\ Len(thr.got) = 3
    /\ {thr.got[i].by : i \in 1..Len(thr.got)} = Consumers
    /\ {thr.got[i].item.response_tx : i \in 1..Len(thr.got)} = Producers
    /\ thr.sent["c1"] = <<1, 2>>

----------------------------------------------------------------------------
(* server/buffer_pool.rs, thread by thread *)

\* BytesMut::with_capacity: a buffer holding no bytes
FreshBuffer == <<>>

\* variant: put pushes the buffer with the bytes it holds
KeepBytes(buf) == buf

\* BytesMut::clear
Clear(buf) == <<>>

\* ArrayQueue::push: Err, and the queue unchanged, when the queue is full
Push(q, capacity, buf) == IF Len(q) >= capacity THEN q ELSE Append(q, buf)

\* BufferPool::new: capacity empty buffers are pushed
BufferPoolNew(capacity) ==
    [capacity |-> capacity,
     pool |-> [i \in 1..capacity |-> FreshBuffer],
     held |-> [t \in Producers |-> <<>>],
     handed |-> FreshBuffer,
     allocated |-> 0,
     discarded |-> 0]

BufferFrame ==
    UNCHANGED <<now, store, index, queue, worker, pc, cur, chan, wire, sweep,
                total_ops, lastWrite, unswept, call, dec, pool, metrics>>

\* BufferPool::get: pop, or a new buffer when the queue is empty
BufferGet(t) ==
    /\ Len(thr.held[t]) < MaxHeld
    /\ LET buf == IF thr.pool = <<>> THEN FreshBuffer ELSE Head(thr.pool)
       IN  thr' = [thr EXCEPT !.pool = IF @ = <<>> THEN @ ELSE Tail(@),
                              !.held[t] = Append(@, buf),
                              !.handed = buf,
                              !.allocated = IF thr.pool = <<>> THEN 1 ELSE 0]
    /\ BufferFrame

\* the task fills the buffer it got last: buf.extend_from_slice
BufferExtend(t) ==
    /\ thr.held[t] # <<>>
    /\ Len(thr.held[t][Len(thr.held[t])]) < 1
    /\ thr' = [thr EXCEPT !.held[t][Len(thr.held[t])] = Append(@, 116)]
    /\ BufferFrame

\* BufferPool::put of the buffer the task got first
BufferPut(t) ==
    /\ thr.held[t] # <<>>
    /\ thr' = [thr EXCEPT !.pool = Push(@, thr.capacity, Clear(Head(thr.held[t]))),
                          !.held[t] = Tail(@),
                          !.discarded = IF Len(thr.pool) >= thr.capacity THEN 1 ELSE 0]
    /\ BufferFrame

\* connection tasks sharing one pool of any capacity
BufferInit ==
    /\ QuietInit
    /\ store = EmptyMap
    /\ \E capacity \in 1..MaxCapacity : thr = BufferPoolNew(capacity)

BufferNext ==
    \E t \in Producers : BufferGet(t) \/ BufferExtend(t) \/ BufferPut(t)

BufferSpec == BufferInit /\ [][BufferNext]_vars

\* C31: the pool never holds more buffers than its capacity, every pooled
\* buffer and every buffer get hands out is empty, and get is never blocked:
\* a task below its own limit can always take a buffer, and from an empty pool
\* it takes a new one
C31_BufferPool ==
    /\ [](/\ Len(thr.pool) <= thr.capacity
          /\ \A i \in 1..Len(thr.pool) : thr.pool[i] = <<>>
          /\ thr.handed = <<>>
          /\ \A t \in Producers : Len(thr.held[t]) < MaxHeld => ENABLED BufferGet(t))
    /\ [][\A t \in Producers :
            (thr.pool = <<>> /\ Len(thr'.held[t]) > Len(thr.held[t]))
            => thr'.allocated = 1 /\ thr'.handed = FreshBuffer]_vars

\* C31 witness: after a get that found the pool empty and allocated, the
\* last put found the pool full and its buffer was discarded, while a task
\* still holds a filled buffer
C31_Witness ==
    /\ thr.capacity = 1
    /\ thr.allocated = 1
    /\ thr.discarded = 1
    /\ thr.pool = <<FreshBuffer>>
    /\ thr.held = [t \in Producers |-> IF t = "c1" THEN <<<<116>>>> ELSE <<>>]

----------------------------------------------------------------------------
(* Liveness of the request path *)

\* the request of a connection is on a queue or with a worker
InFlight(c) == pc[c] = "await" /\ chan[c].state = "pending"

\* C32: under fair scheduling every work item placed on a queue is received
\* and executed by a worker of the pool and its result is sent into the reply
\* channel
C32_RequestLiveness ==
    \A c \in PipelineConns : InFlight(c) ~> chan[c].state = "sent"

----------------------------------------------------------------------------
(* The size of the VSEARCH reply *)

\* C33: the ARRAY a worker returns for VSEARCH(vector, k) holds at most k
\* keys, k being 10 when the request carries none
C33_VSearchAtMostK ==
    [][\A w \in VecWorkers :
         (Executes(w) /\ ExecCmd(w).op = "VSearch" /\ ExecReply(w).state = "sent"
          /\ ExecReply(w).result.tag = "Array")
         => Len(ExecReply(w).result.data) <= ExecCmd(w).k]_vars

----------------------------------------------------------------------------
(* The sweeper racing a writer *)

\* the entry under k has not expired
Live(k) == ~(store[k].expires_at # None /\ now > store[k].expires_at)

\* C34: whatever the cleaner is doing, an entry that has not expired leaves
\* the store only by a DEL of its key: the cleaner never removes it, and an
\* entry set without ttl stays until it is deleted
C34_SweeperKeepsLiveData ==
    [][\A k \in DOMAIN store : (Live(k) /\ k \notin DOMAIN store') => Del(k)]_vars

\* C34 witness: cleanup_expired found only k1 in the store, expired, and
\* erased it from the first shard; while the cleaner is on its way to the
\* second shard a set of k1 without ttl has completed and k1 is in the store
C34_Witness ==
    /\ ~thr.logging
    /\ thr.before = 1
    /\ thr.removed = 1
    /\ thr.shard = 2
    /\ ~thr.visited
    /\ thr.wrote
    /\ DOMAIN store = {"k1"}
    /\ store["k1"].expires_at = None

----------------------------------------------------------------------------
(* vector/semantic.rs, thread by thread: semantic_get scans the index with
   find_nearest and then looks each key up again, while other workers of the
   Vector pool write *)

SemVectors == {Pad(<<1, 0>>), Pad(<<3, 1>>)}

\* a worker outside semantic_get
SearcherNew == [at |-> "idle", query |-> <<>>, nearest |-> <<>>, results |-> <<>>]

SemFrame ==
    UNCHANGED <<now, store, queue, worker, pc, cur, chan, wire, sweep, total_ops,
                lastWrite, unswept, call, dec, pool, metrics>>

\* SemanticCache::set by another worker
SemSet(key, embedding, value) ==
    /\ index' = EmbeddingStoreSet(index, key, EmbeddingEntryNew(embedding, value, now)).index
    /\ UNCHANGED thr
    /\ SemFrame

\* EmbeddingStore::del by another thread
SemDel(key) ==
    /\ key \in DOMAIN index
    /\ index' = Remove(index, key)
    /\ UNCHANGED thr
    /\ SemFrame

\* semantic_get, first half: store.find_nearest(query, max_results, threshold)
SemFindNearest(query) ==
    /\ thr.at = "idle"
    /\ \E iter \in Orderings(DOMAIN index) :
           thr' = [at |-> "lookup", query |-> query,
                   nearest |-> find_nearest(index, iter, query, max_results),
                   results |-> <<>>]
    /\ UNCHANGED index
    /\ SemFrame

\* semantic_get, one turn of filter_map: store.get(&key) and the result built
\* from the entry found now and the similarity found by the scan; `of` is the
\* embedding of the entry whose value and metadata are returned
SemLookup ==
    /\ thr.at = "lookup"
    /\ IF thr.nearest = <<>>
       THEN thr' = [thr EXCEPT !.at = "idle"]
       ELSE LET key == Head(thr.nearest).key
            IN  thr' = [thr EXCEPT
                    !.nearest = Tail(@),
                    !.results = IF key \in DOMAIN index
                                THEN Append(@, [key |-> key,
                                                value |-> index[key].value,
                                                similarity |-> Head(thr.nearest).sim,
                                                metadata |-> index[key].metadata,
                                                of |-> index[key].embedding,
                                                present |-> TRUE])
                                ELSE @]
    /\ UNCHANGED index
    /\ SemFrame

SemInit ==
    /\ QuietInit
    /\ store = EmptyMap
    /\ thr = SearcherNew

SemNext ==
    \/ \E key \in Keys, embedding \in SemVectors, value \in Values :
           SemSet(key, embedding, value)
    \/ \E key \in Keys : SemDel(key)
    \/ SemFindNearest(Pad(<<1, 0>>))
    \/ SemLookup

SemSpec == SemInit /\ [][SemNext]_vars

\* C35: every result of semantic_get names a key that was in the index when
\* the result was built, and its similarity is the one between the query and
\* the embedding of the entry whose value and metadata it carries
C35_SemanticGetConsistent ==
    \A i \in 1..Len(thr.results) :
        /\ thr.results[i].present
        /\ Tied(thr.results[i].similarity,
                cosine_similarity(thr.query, thr.results[i].of))

----------------------------------------------------------------------------
(* server/handler.rs next to server/worker_pool.rs: the same commands through
   the single-threaded handler and through the worker pool *)

\* Handler::execute on a Store and a SemanticCache; a panic ends the task of
\* the connection
Handler_execute(s, idx, cmd, t, order, debug) ==
    IF cmd.op = "Ping" THEN Returned([tag |-> "Pong"], s, idx)
    ELSE IF cmd.op = "Get" THEN
        IF StoreGet(s, cmd.key, t).some
        THEN Returned([tag |-> "Value", data |-> StoreGet(s, cmd.key, t).value], s, idx)
        ELSE Returned([tag |-> "Nil"], s, idx)
    ELSE IF cmd.op = "Set" THEN
        IF cmd.ttl # None /\ InstantAddOverflows(t, cmd.ttl)
        THEN Panicked(s, idx)
        ELSE Returned([tag |-> "Ok"], StoreSet(s, cmd.key, cmd.value, cmd.ttl, t), idx)
    ELSE IF cmd.op = "Del" THEN
        Returned([tag |-> "Integer", data |-> IF StoreDelExisted(s, cmd.key) THEN 1 ELSE 0],
                 StoreDel(s, cmd.key), idx)
    ELSE IF cmd.op = "Exists" THEN
        Returned([tag |-> "Integer", data |-> IF StoreExists(s, cmd.key, t) THEN 1 ELSE 0],
                 s, idx)
    ELSE IF cmd.op = "VAdd" THEN
        LET set == EmbeddingStoreSet(idx, cmd.key, EmbeddingEntryNew(cmd.vector, cmd.key, t))
        IN  IF set.ok
            THEN Returned([tag |-> "Ok"], s, set.index)
            ELSE Returned([tag |-> "Error", data |-> set.err], s, set.index)
    ELSE \* VSearch
        IF ScanPanics(idx, cmd.vector, debug)
        THEN Panicked(s, idx)
        ELSE Returned([tag |-> "Array", data |-> semantic_get(idx, order, cmd.vector)], s, idx)

\* the commands given to both servers
PathCommands ==
    {[op |-> "Ping"]}
    \cup {[op |-> op, key |-> "k1"] : op \in {"Get", "Del", "Exists"}}
    \cup {[op |-> "Set", key |-> "k1", value |-> "v1", ttl |-> ttl] : ttl \in {None, 1, U64Max}}
    \cup {[op |-> "VAdd", key |-> "k1", vector |-> v] : v \in {Pad(<<1, 0>>), ShortVector}}
    \cup {[op |-> "VSearch", vector |-> Pad(<<1, 0>>), k |-> 1]}

\* two servers with empty stores
NewPaths ==
    [fn |-> "paths",
     single |-> [store |-> EmptyMap, index |-> EmptyMap, open |-> TRUE, responses |-> <<>>],
     pooled |-> [store |-> EmptyMap, index |-> EmptyMap, responses |-> <<>>],
     sent |-> 0]

PathsInit == ServerInit /\ call = NewPaths /\ dec = NoDecoder

\* ConcurrentHandler::run on the outcome of the worker: the WorkResult turned
\* into a Response, ERROR "Worker error" when the worker dropped the channel
PooledResponse(out) ==
    IF out.panic THEN ResponseError(<<"Worker error">>) ELSE ResponseOf(out.result)

\* one command through both servers at the same instant, the index iterated
\* in the same order and the same build profile; a connection whose task
\* panicked takes no further command
Both(cmd) ==
    /\ call.sent < MaxOps
    /\ \E order \in Orderings(DOMAIN call.pooled.index), debug \in BOOLEAN :
         LET a == Handler_execute(call.single.store, call.single.index, cmd, now, order, debug)
             b == execute_command(call.pooled.store, call.pooled.index, cmd, now, order, debug)
         IN  call' = [call EXCEPT
                 !.sent = @ + 1,
                 !.single = IF ~call.single.open THEN @
                            ELSE IF a.panic THEN [@ EXCEPT !.open = FALSE]
                            ELSE [store |-> a.store, index |-> a.index, open |-> TRUE,
                                  responses |-> Append(@.responses, a.result)],
                 !.pooled = [store |-> b.store, index |-> b.index,
                             responses |-> Append(@.responses, PooledResponse(b))]]
    /\ UNCHANGED <<serverVars, dec>>

PathsNext ==
    \/ \E cmd \in PathCommands : Both(cmd)
    \/ Tick

PathsSpec == PathsInit /\ [][PathsNext]_vars

\* C36: the responses of the single-threaded handler and of the worker pool
\* to the same sequence of commands are the same
C36_PathsAgree ==
    call.fn = "paths" => call.single.responses = call.pooled.responses

----------------------------------------------------------------------------
(* server/worker_pool.rs : what worker_loop records in the metrics *)

\* format!("{:?}", work_item.command): the derived Debug of Command prints
\* the variant and every field, so two commands have one name only when they
\* are equal
cmd_name(cmd) == cmd

\* Metrics::record_operation run to its end by one thread
RecordOperation(m, command, latency_us) ==
    [total_ops |-> AsU64(m.total_ops + 1),
     ops_by_command |-> Insert(m.ops_by_command, command,
                               AsU64((IF command \in DOMAIN m.ops_by_command
                                      THEN m.ops_by_command[command] ELSE 0) + 1)),
     latency_sum_us |-> AsU64(m.latency_sum_us + latency_us),
     latency_count |-> AsU64(m.latency_count + 1),
     latency_min_us |-> IF latency_us < m.latency_min_us THEN latency_us ELSE m.latency_min_us,
     latency_max_us |-> IF latency_us > m.latency_max_us THEN latency_us ELSE m.latency_max_us]

\* the commands the workers are given: every kind, with several payloads
KindCommands ==
    {[op |-> "Ping"]}
    \cup {[op |-> op, key |-> key] : op \in {"Get", "Del", "Exists"}, key \in Keys}
    \cup {[op |-> "Set", key |-> "k1", value |-> value, ttl |-> None] : value \in Values}
    \cup {[op |-> "VAdd", key |-> "k1", vector |-> Pad(<<1, 0>>)]}
    \cup {[op |-> "VSearch", vector |-> Pad(<<1, 0>>), k |-> 1]}

\* one turn of worker_loop on a received command: execute_command, the
\* result sent, then record_operation under cmd_name
WorkerTurn(cmd) ==
    /\ total_ops < MaxRecorded
    /\ \E order \in Orderings(DOMAIN index) :
         LET out == execute_command(store, index, cmd, now, order, FALSE)
         IN  /\ ~out.panic
             /\ store' = out.store
             /\ index' = out.index
    /\ total_ops' = total_ops + 1
    /\ metrics' = RecordOperation(metrics, cmd_name(cmd), 1)
    /\ UNCHANGED <<now, queue, worker, pc, cur, chan, wire, sweep, lastWrite, unswept,
                   call, dec, pool, thr>>

KindNext == \E cmd \in KindCommands : WorkerTurn(cmd)

KindSpec == Init /\ [][KindNext]_vars

\* C37: ops_by_command never has more keys than there are kinds of command
C37_MetricsKeyedByKind ==
    Cardinality(DOMAIN metrics.ops_by_command) <= Cardinality(CommandOpcodes)

----------------------------------------------------------------------------
(* cluster/raft.rs : RaftNode and handle_vote_request, with the read and
   write guards of the voted_for lock *)

NodeIds == {1, 2, 3}

NoRequest ==
    [term |-> 0, candidate_id |-> 0, last_log_index |-> 0, last_log_term |-> 0,
     pre_vote |-> FALSE]

NoResponse == [term |-> 0, vote_granted |-> FALSE, pre_vote |-> FALSE, returned |-> FALSE]

VoteRequests ==
    [term : 0..MaxTerm, candidate_id : NodeIds \ {1}, last_log_index : 0..MaxLog,
     last_log_term : 0..1, pre_vote : BOOLEAN]

\* RaftNode::new(1, config); readers counts the read guards of voted_for
RaftNodeNew ==
    [id |-> 1, current_term |-> 0, state |-> "Follower", voted_for |-> None,
     last_log_index |-> 0, last_log_term |-> 0, leader_id |-> None,
     readers |-> 0, at |-> "idle", req |-> NoRequest, granted |-> FALSE,
     resp |-> NoResponse]

RaftFrame ==
    UNCHANGED <<now, store, index, queue, worker, pc, cur, chan, wire, sweep,
                total_ops, lastWrite, unswept, call, dec, pool, metrics>>

\* RaftNode::become_candidate
become_candidate ==
    /\ thr.at = "idle"
    /\ thr.current_term < MaxTerm
    /\ thr' = [thr EXCEPT !.state = "Candidate", !.current_term = @ + 1,
                          !.voted_for = thr.id]
    /\ RaftFrame

\* RaftNode::become_leader
become_leader ==
    /\ thr.at = "idle"
    /\ thr.state = "Candidate"
    /\ thr' = [thr EXCEPT !.state = "Leader", !.leader_id = thr.id]
    /\ RaftFrame

\* the node as RaftNode::become_follower leaves it
become_follower(n, term, leader) ==
    [n EXCEPT !.current_term = term, !.state = "Follower", !.voted_for = None,
              !.leader_id = leader]

\* RaftNode::append_command: the leader pushes an entry of its term
append_command ==
    /\ thr.at = "idle"
    /\ thr.state = "Leader"
    /\ thr.last_log_index < MaxLog
    /\ thr' = [thr EXCEPT !.last_log_index = @ + 1, !.last_log_term = thr.current_term]
    /\ RaftFrame

\* handle_vote_request up to the decision: an older term is refused at once;
\* otherwise the read guard of voted_for is taken and kept in a local
HandleVoteRequest(req) ==
    /\ thr.at = "idle"
    /\ IF req.term < thr.current_term
       THEN thr' = [thr EXCEPT !.req = req, !.granted = FALSE,
                               !.resp = [term |-> thr.current_term, vote_granted |-> FALSE,
                                         pre_vote |-> req.pre_vote, returned |-> TRUE]]
       ELSE LET n == IF req.term > thr.current_term /\ ~req.pre_vote
                     THEN become_follower(thr, req.term, None) ELSE thr
                can_vote == n.voted_for = None \/ n.voted_for = req.candidate_id
                log_ok == \/ req.last_log_term > n.last_log_term
                          \/ /\ req.last_log_term = n.last_log_term
                             /\ req.last_log_index >= n.last_log_index
            IN  thr' = [n EXCEPT !.req = req, !.granted = can_vote /\ log_ok,
                                 !.readers = @ + 1, !.at = "decided",
                                 !.resp = NoResponse]
    /\ RaftFrame

\* the vote is to be written
Granting == thr.granted /\ ~thr.req.pre_vote

\* RwLock::write returns only when no read guard exists
WriteLockFree(n) == n.readers = 0

\* *self.voted_for.write().unwrap() = Some(candidate_id): a thread that asks
\* for the write lock while it holds a read guard itself waits forever, or
\* panics where the lock notices
VoteWrite ==
    /\ thr.at = "decided"
    /\ Granting
    /\ IF WriteLockFree(thr)
       THEN thr' = [thr EXCEPT !.voted_for = thr.req.candidate_id, !.at = "written"]
       ELSE \E outcome \in {"blocked", "panicked"} : thr' = [thr EXCEPT !.at = outcome]
    /\ RaftFrame

\* the response is built, the read guard dropped at the end of the function
VoteReturn ==
    /\ thr.at = IF Granting THEN "written" ELSE "decided"
    /\ thr' = [thr EXCEPT !.at = "idle", !.readers = @ - 1,
                          !.resp = [term |-> thr.current_term, vote_granted |-> thr.granted,
                                    pre_vote |-> thr.req.pre_vote, returned |-> TRUE]]
    /\ RaftFrame

RaftInit ==
    /\ QuietInit
    /\ store = EmptyMap
    /\ thr = RaftNodeNew

RaftNext ==
    \/ become_candidate
    \/ become_leader
    \/ append_command
    \/ \E req \in VoteRequests : HandleVoteRequest(req)
    \/ VoteWrite
    \/ VoteReturn

\* the thread inside handle_vote_request is scheduled
RaftSpec == RaftInit /\ [][RaftNext]_vars /\ WF_vars(VoteWrite) /\ WF_vars(VoteReturn)

\* C38: a call of handle_vote_request always returns a response
C38_VoteRequestReturns ==
    (thr.at # "idle") ~> (thr.at = "idle" /\ thr.resp.returned)

----------------------------------------------------------------------------
(* cluster/replication.rs : ReplicationManager::record and get_entries,
   thread by thread *)

Writers == {"w1", "w2"}

ReplicationOps == {"Set", "Del"}

\* ReplicationManager::new(config), with each writer outside record;
\* completed counts the calls of record that have returned
ReplicationManagerNew ==
    [offset |-> 0, buffer |-> <<>>, completed |-> 0,
     at |-> [t \in Writers |-> "idle"],
     entry |-> [t \in Writers |-> [seq |-> 0, op |-> "Set"]],
     asked |-> FALSE, from |-> 0, limit |-> 0, got |-> <<>>]

ReplicationFrame ==
    UNCHANGED <<now, store, index, queue, worker, pc, cur, chan, wire, sweep,
                total_ops, lastWrite, unswept, call, dec, pool, metrics>>

\* buffer.drain(0..trim_to)
Drain(buffer, trim_to) == SubSeq(buffer, trim_to + 1, Len(buffer))

\* the buffer after buffer.push(entry) and the trim of record
PushAndTrim(buffer, entry) ==
    LET pushed == Append(buffer, entry)
    IN  IF Len(pushed) > BufferSize \div 100
        THEN Drain(pushed, Len(pushed) - BufferSize \div 200)
        ELSE pushed

\* record: let seq = self.offset.fetch_add(1, SeqCst) + 1, and the entry is built
RecordFetchAdd(t, op) ==
    /\ thr.at[t] = "idle"
    /\ thr.offset < MaxEntries
    /\ thr' = [thr EXCEPT !.offset = (@ + 1) % (U64Max + 1),
                          !.entry[t] = [seq |-> (thr.offset + 1) % (U64Max + 1), op |-> op],
                          !.at[t] = "push"]
    /\ ReplicationFrame

\* record: the buffer's write lock is taken, the entry pushed, the buffer
\* trimmed, and seq returned
RecordPush(t) ==
    /\ thr.at[t] = "push"
    /\ thr' = [thr EXCEPT !.buffer = PushAndTrim(@, thr.entry[t]),
                          !.completed = @ + 1,
                          !.at[t] = "idle"]
    /\ ReplicationFrame

\* get_entries(from_offset, limit) under the buffer's read lock
get_entries(buffer, from_offset, limit) ==
    Truncate(SelectSeq(buffer, LAMBDA e : e.seq > from_offset), limit)

GetEntries(from_offset, limit) ==
    /\ thr' = [thr EXCEPT !.asked = TRUE, !.from = from_offset, !.limit = limit,
                          !.got = get_entries(thr.buffer, from_offset, limit)]
    /\ ReplicationFrame

ReplicationInit ==
    /\ QuietInit
    /\ store = EmptyMap
    /\ thr = ReplicationManagerNew

ReplicationNext ==
    \/ \E t \in Writers, op \in ReplicationOps : RecordFetchAdd(t, op)
    \/ \E t \in Writers : RecordPush(t)
    \/ \E from_offset \in 0..2, limit \in 1..2 : GetEntries(from_offset, limit)

ReplicationSpec == ReplicationInit /\ [][ReplicationNext]_vars

\* the sequence numbers handed out so far
Assigned ==
    {thr.buffer[i].seq : i \in 1..Len(thr.buffer)}
        \cup {thr.entry[t].seq : t \in {w \in Writers : thr.at[w] = "push"}}

\* C39: sequence numbers are handed out without gap or duplicate, offset()
\* counts the completed records once no record is running, the buffer is in
\* ascending sequence order, and get_entries returns the entries that follow
\* from_offset with none skipped
C39_RecordInOrder ==
    /\ \A t, u \in Writers :
         (t # u /\ thr.at[t] = "push" /\ thr.at[u] = "push")
            => thr.entry[t].seq # thr.entry[u].seq
    /\ \A i, j \in 1..Len(thr.buffer) : i # j => thr.buffer[i].seq # thr.buffer[j].seq
    /\ \A s \in Assigned : s \in 1..thr.offset
    /\ (\A t \in Writers : thr.at[t] = "idle") => thr.offset = thr.completed
    /\ \A i \in 1..(Len(thr.buffer) - 1) : thr.buffer[i].seq < thr.buffer[i + 1].seq
    /\ \A i \in 1..Len(thr.got) :
         (thr.from + 1 \in {thr.got[j].seq : j \in 1..Len(thr.got)})
            => thr.got[i].seq = thr.from + i

----------------------------------------------------------------------------
(* storage/eviction.rs : LruManager::touch, remove and the LRU candidates,
   thread by thread *)

Callers == {"p", "q"}

Sizes == {1, 2}

\* EvictionMeta::new(size) at instant t
EvictionMetaNew(size, t) == [last_access |-> t, access_count |-> 1, size |-> size]

\* EvictionMeta::touch at instant t; the count saturates
EvictionMetaTouch(m, t) ==
    [m EXCEPT !.last_access = t,
              !.access_count = IF @ = U64Max THEN U64Max ELSE @ + 1]

\* LruManager::new(config) with the Lru policy, each caller outside a call;
\* instant is the clock Instant::now reads
LruManagerNew ==
    [order |-> <<>>, meta |-> << >>, memory_used |-> 0, instant |-> 0, calls |-> 0,
     at |-> [t \in Callers |-> "idle"],
     key |-> [t \in Callers |-> "k1"],
     size |-> [t \in Callers |-> 0]]

LruFrame ==
    UNCHANGED <<now, store, index, queue, worker, pc, cur, chan, wire, sweep,
                total_ops, lastWrite, unswept, call, dec, pool, metrics>>

\* order.retain(|k| k != key)
OrderRetain(order, key) == SelectSeq(order, LAMBDA k : k # key)

\* meta.remove(key)
MetaRemove(meta, key) == [k \in DOMAIN meta \ {key} |-> meta[k]]

\* meta.insert(key, m)
MetaInsert(meta, key, m) ==
    [k \in DOMAIN meta \cup {key} |-> IF k = key THEN m ELSE meta[k]]

\* touch: self.meta.get_mut(key); a tracked key's entry is touched under the
\* guard, an untracked one goes to the else branch
TouchGetMut(t, key, size) ==
    /\ thr.at[t] = "idle"
    /\ thr.calls < MaxCalls
    /\ thr' = [thr EXCEPT
           !.calls = @ + 1,
           !.key[t] = key,
           !.size[t] = size,
           !.instant = IF key \in DOMAIN thr.meta THEN @ + 1 ELSE @,
           !.meta = IF key \in DOMAIN thr.meta
                    THEN [@ EXCEPT ![key] = EvictionMetaTouch(@, thr.instant + 1)]
                    ELSE @,
           !.at[t] = IF key \in DOMAIN thr.meta THEN "order" ELSE "insert"]
    /\ LruFrame

\* touch: self.meta.insert(key.clone(), EvictionMeta::new(size))
TouchInsert(t) ==
    /\ thr.at[t] = "insert"
    /\ thr' = [thr EXCEPT
           !.instant = @ + 1,
           !.meta = MetaInsert(@, thr.key[t], EvictionMetaNew(thr.size[t], thr.instant + 1)),
           !.at[t] = "add"]
    /\ LruFrame

\* touch: self.memory_used.fetch_add(size, Relaxed)
TouchFetchAdd(t) ==
    /\ thr.at[t] = "add"
    /\ thr' = [thr EXCEPT !.memory_used = (@ + thr.size[t]) % (U64Max + 1),
                          !.at[t] = "order"]
    /\ LruFrame

\* touch: under order.write(), the old position is removed and the key
\* pushed to the back
TouchOrder(t) ==
    /\ thr.at[t] = "order"
    /\ thr' = [thr EXCEPT !.order = Append(OrderRetain(@, thr.key[t]), thr.key[t]),
                          !.at[t] = "idle"]
    /\ LruFrame

\* remove: self.meta.remove(key)
RemoveMeta(t, key) ==
    /\ thr.at[t] = "idle"
    /\ thr.calls < MaxCalls
    /\ thr' = [thr EXCEPT
           !.calls = @ + 1,
           !.key[t] = key,
           !.size[t] = IF key \in DOMAIN thr.meta THEN thr.meta[key].size ELSE 0,
           !.meta = MetaRemove(@, key),
           !.at[t] = IF key \in DOMAIN thr.meta THEN "sub" ELSE "retain"]
    /\ LruFrame

\* remove: self.memory_used.fetch_sub(meta.size, Relaxed)
RemoveFetchSub(t) ==
    /\ thr.at[t] = "sub"
    /\ thr' = [thr EXCEPT !.memory_used = (@ - thr.size[t]) % (U64Max + 1),
                          !.at[t] = "retain"]
    /\ LruFrame

\* remove: under order.write(), order.retain(|k| k != key)
RemoveOrder(t) ==
    /\ thr.at[t] = "retain"
    /\ thr' = [thr EXCEPT !.order = OrderRetain(@, thr.key[t]), !.at[t] = "idle"]
    /\ LruFrame

\* get_lru_candidates(count)
get_lru_candidates(m, count) == Truncate(m.order, count)

LruInit ==
    /\ QuietInit
    /\ store = EmptyMap
    /\ thr = LruManagerNew

LruNext ==
    \/ \E t \in Callers, key \in Keys, size \in Sizes : TouchGetMut(t, key, size)
    \/ \E t \in Callers : TouchInsert(t)
    \/ \E t \in Callers : TouchFetchAdd(t)
    \/ \E t \in Callers : TouchOrder(t)
    \/ \E t \in Callers, key \in Keys : RemoveMeta(t, key)
    \/ \E t \in Callers : RemoveFetchSub(t)
    \/ \E t \in Callers : RemoveOrder(t)

LruSpec == LruInit /\ [][LruNext]_vars

RECURSIVE SizeOf(_, _)
\* the sizes of the keys of the set, summed
SizeOf(meta, keys) ==
    IF keys = {} THEN 0
    ELSE LET k == CHOOSE x \in keys : TRUE
         IN  meta[k].size + SizeOf(meta, keys \ {k})

\* no call of touch or remove is running
LruIdle == \A t \in Callers : thr.at[t] = "idle"

\* C40: once the calls have returned, the access-order list holds exactly the
\* tracked keys, each once, memory_used is the sum of their sizes, and the
\* first LRU candidate is the tracked key touched least recently
C40_LruBookkeeping ==
    LruIdle =>
        /\ {thr.order[i] : i \in 1..Len(thr.order)} = DOMAIN thr.meta
        /\ Len(thr.order) = Cardinality(DOMAIN thr.meta)
        /\ thr.memory_used = SizeOf(thr.meta, DOMAIN thr.meta)
        /\ \A k \in DOMAIN thr.meta :
             /\ get_lru_candidates(thr, 1) # <<>>
             /\ thr.meta[get_lru_candidates(thr, 1)[1]].last_access
                    <= thr.meta[k].last_access

====
